---- MODULE Spec2Model ----
(***************************************************************************)
(* The LLM tool-calling orchestration loop of the AI assistant extension:  *)
(* run_agent (batch) and run_agent_stream (streaming) of agent.py, the     *)
(* tool dispatcher execute_tool of tools.py, the result summarizer          *)
(* _summarize_result and the prompt builder build_system_prompt of         *)
(* agent.py, and the chat / chat_stream endpoints of api.py that validate  *)
(* a request and call into the loop.                                       *)
(*                                                                         *)
(* JSON values are records [t |-> type, v |-> value]; a Python dict is a   *)
(* function from its keys to JSON values.                                  *)
(***************************************************************************)
EXTENDS Integers, Sequences, FiniteSets, TLC

\* Largest configured max_tool_rounds the model explores.
MaxRounds == 2

\* Largest number of tool calls the adapter requests over one invocation.
MaxDispatch == 2

(***************************************************************************)
(* JSON values and Python dicts                                            *)
(***************************************************************************)
JStr(s) == [t |-> "str", v |-> s]
JNum(n) == [t |-> "num", v |-> n]
JNull == [t |-> "null", v |-> "None"]
JBool(b) == [t |-> "bool", v |-> b]
JList(q) == [t |-> "list", v |-> q]

\* A dict {k1: v1, ...} given as its items <<k1, v1>>, ...: its keys in
\* insertion order (k) and the value under each key (v).
JObj(items) ==
    [t |-> "obj",
     k |-> [i \in 1..Len(items) |-> items[i][1]],
     v |-> [key \in { items[i][1] : i \in 1..Len(items) } |->
               items[CHOOSE i \in 1..Len(items) : items[i][1] = key][2]]]

\* {}
EmptyObj == JObj(<<>>)

\* A list of strings
JStrList(q) == JList([i \in 1..Len(q) |-> JStr(q[i])])

EmptyDict == [k \in {} |-> JNull]

\* type(x).__name__
PyTypeName(j) ==
    CASE j.t = "str" -> "str"
      [] j.t = "num" -> "int"
      [] j.t = "bool" -> "bool"
      [] j.t = "null" -> "NoneType"
      [] j.t = "list" -> "list"
      [] j.t = "obj" -> "dict"

\* dict.get(key, default)
DictGet(d, key, default) == IF key \in DOMAIN d THEN d[key] ELSE default

\* {**base, **over}: base's keys in their order, then the keys only over has
\* in theirs; over's values win.
DictMerge(base, over) ==
    [t |-> "obj",
     k |-> base.k \o SelectSeq(over.k, LAMBDA key : key \notin DOMAIN base.v),
     v |-> [key \in DOMAIN base.v \cup DOMAIN over.v |->
               IF key \in DOMAIN over.v THEN over.v[key] ELSE base.v[key]]]

\* s[:n] of a string
Trunc(s, n) == IF Len(s) <= n THEN s ELSE SubSeq(s, 1, n)

Min(a, b) == IF a <= b THEN a ELSE b

\* bool(x) of a JSON value: None, False, 0, "", [] and {} are false.
Truthy(j) ==
    CASE j.t = "null" -> FALSE
      [] j.t = "bool" -> j.v
      [] j.t = "num" -> j.v # 0
      [] j.t = "str" -> j.v # ""
      [] j.t = "list" -> j.v # <<>>
      [] j.t = "obj" -> DOMAIN j.v # {}
      [] OTHER -> TRUE

(***************************************************************************)
(* json.loads on the argument texts the adapter can hand back.  ok = FALSE *)
(* is json.JSONDecodeError.                                                *)
(***************************************************************************)
\* An argument text with the fields every tool requires and, beside them, a
\* database, a catalog, a schema and row caps of the model's choosing.
ChosenText ==
    "{\"table_name\": \"t\", \"schema_name\": \"sales\", "
    \o "\"column_name\": \"c\", \"sql\": \"SELECT * FROM t\", "
    \o "\"database_id\": 9, \"catalog\": \"other\", "
    \o "\"schema\": \"secret\", \"max_rows\": 1000, "
    \o "\"max_sample_rows\": 1000}"

ArgTexts ==
    { "{}",
      ChosenText,
      "{invalid json",
      "[1]",
      "{\"sql\": \"SELECT 1\"}",
      "{\"sql\": \"DROP TABLE x\"}",
      "{\"type\": \"x\", \"sql\": \"SELECT 1\"}",
      "{\"error\": 1}",
      "{\"schema_name\": \"dbo\"}",
      "{\"table_name\": \"t\", \"schema_name\": \"dbo\"}" }

json_loads(text) ==
    CASE text = "{}" -> [ok |-> TRUE, val |-> EmptyObj]
      [] text = ChosenText ->
            [ok |-> TRUE,
             val |-> JObj(<<<<"table_name", JStr("t")>>,
                            <<"schema_name", JStr("sales")>>,
                            <<"column_name", JStr("c")>>,
                            <<"sql", JStr("SELECT * FROM t")>>,
                            <<"database_id", JNum(9)>>,
                            <<"catalog", JStr("other")>>,
                            <<"schema", JStr("secret")>>,
                            <<"max_rows", JNum(1000)>>,
                            <<"max_sample_rows", JNum(1000)>>>>)]
      [] text = "{invalid json" -> [ok |-> FALSE, val |-> JNull]
      [] text = "[1]" -> [ok |-> TRUE, val |-> JList(<<JNum(1)>>)]
      [] text = "{\"sql\": \"SELECT 1\"}" ->
            [ok |-> TRUE, val |-> JObj(<<<<"sql", JStr("SELECT 1")>>>>)]
      [] text = "{\"sql\": \"DROP TABLE x\"}" ->
            [ok |-> TRUE, val |-> JObj(<<<<"sql", JStr("DROP TABLE x")>>>>)]
      [] text = "{\"type\": \"x\", \"sql\": \"SELECT 1\"}" ->
            [ok |-> TRUE,
             val |-> JObj(<<<<"type", JStr("x")>>,
                            <<"sql", JStr("SELECT 1")>>>>)]
      [] text = "{\"error\": 1}" ->
            [ok |-> TRUE, val |-> JObj(<<<<"error", JNum(1)>>>>)]
      [] text = "{\"schema_name\": \"dbo\"}" ->
            [ok |-> TRUE, val |-> JObj(<<<<"schema_name", JStr("dbo")>>>>)]
      [] text = "{\"table_name\": \"t\", \"schema_name\": \"dbo\"}" ->
            [ok |-> TRUE,
             val |-> JObj(<<<<"table_name", JStr("t")>>,
                            <<"schema_name", JStr("dbo")>>>>)]

\* try: tool_args = json.loads(...) except json.JSONDecodeError: tool_args = {}
ParseArgs(text) ==
    LET r == json_loads(text) IN IF r.ok THEN r.val ELSE EmptyObj

(***************************************************************************)
(* str.strip(), str.upper() and str.startswith() for the SQL policy check  *)
(***************************************************************************)
\* The characters str.strip() removes, among those a string of the model can
\* hold (the characters up to U+00FF): space, tab, line feed, carriage
\* return, form feed, and behind them U+000B, U+001C to U+001F, U+0085 and
\* U+00A0.
Whitespace == {" ", "\t", "\n", "\r", "\f", "", "", "", "", "", "", " "}

RECURSIVE LStrip(_)
LStrip(s) ==
    IF Len(s) > 0 /\ SubSeq(s, 1, 1) \in Whitespace
    THEN LStrip(SubSeq(s, 2, Len(s)))
    ELSE s

RECURSIVE RStrip(_)
RStrip(s) ==
    IF Len(s) > 0 /\ SubSeq(s, Len(s), Len(s)) \in Whitespace
    THEN RStrip(SubSeq(s, 1, Len(s) - 1))
    ELSE s

Strip(s) == RStrip(LStrip(s))

\* The characters U+0001 to U+00FF in the order of their codes, in two parts:
\* those before the backquote (U+0060), which a string here cannot hold, and
\* those after it.
CharsBelowBackquote ==
    "\t\n\f\r !\"#$%&'()*+,-./0123456789:;<=>?@ABCDEFGHIJKLMNOPQRSTUVWXYZ[\\]^_"

CharsAboveBackquote ==
    "abcdefghijklmnopqrstuvwxyz{|}~ ¡¢£¤¥¦§¨©ª«¬­®¯°±²³´µ¶·¸¹º»¼½¾¿ÀÁÂÃÄÅÆÇÈÉÊËÌÍÎÏÐÑÒÓÔÕÖ×ØÙÚÛÜÝÞßàáâãäåæçèéêëìíîïðñòóôõö÷øùúûüýþÿ"

\* ord(c)
OrdTable ==
    [c \in { SubSeq(CharsBelowBackquote, i, i) :
                i \in 1..Len(CharsBelowBackquote) }
            \cup { SubSeq(CharsAboveBackquote, i, i) :
                     i \in 1..Len(CharsAboveBackquote) } |->
        IF \E i \in 1..Len(CharsBelowBackquote) :
              SubSeq(CharsBelowBackquote, i, i) = c
        THEN CHOOSE i \in 1..Len(CharsBelowBackquote) :
                SubSeq(CharsBelowBackquote, i, i) = c
        ELSE Len(CharsBelowBackquote) + 1
             + CHOOSE i \in 1..Len(CharsAboveBackquote) :
                  SubSeq(CharsAboveBackquote, i, i) = c]

Ord(c) == OrdTable[c]

\* The code points of a text.
CodePoints(text) == [i \in 1..Len(text) |-> Ord(SubSeq(text, i, i))]

\* The letters with an upper-case and a lower-case form up to U+00FF.
LowerLetters == "abcdefghijklmnopqrstuvwxyzàáâãäåæçèéêëìíîïðñòóôõöøùúûüýþ"
UpperLetters == "ABCDEFGHIJKLMNOPQRSTUVWXYZÀÁÂÃÄÅÆÇÈÉÊËÌÍÎÏÐÑÒÓÔÕÖØÙÚÛÜÝÞ"

\* The upper-case form of every lower-case letter.
UpperTable ==
    [c \in { SubSeq(LowerLetters, i, i) : i \in 1..Len(LowerLetters) } |->
        LET i == CHOOSE j \in 1..Len(LowerLetters) :
                     SubSeq(LowerLetters, j, j) = c
        IN SubSeq(UpperLetters, i, i)]

\* str.upper() of one character, as the code points of the result: a string
\* here holds no character beyond U+00FF, and the upper-case forms of U+00B5
\* (U+039C) and U+00FF (U+0178) lie beyond it.  The sharp s becomes SS.
UpperChar(c) ==
    IF c \in DOMAIN UpperTable THEN <<Ord(UpperTable[c])>>
    ELSE IF c = "ß" THEN <<Ord("S"), Ord("S")>>
    ELSE IF c = "µ" THEN <<924>>
    ELSE IF c = "ÿ" THEN <<376>>
    ELSE <<Ord(c)>>

\* str.upper() of a text, as the code points of the result.
RECURSIVE Upper(_)
Upper(s) ==
    IF Len(s) = 0 THEN <<>>
    ELSE UpperChar(SubSeq(s, 1, 1)) \o Upper(SubSeq(s, 2, Len(s)))

StartsWith(s, prefix) ==
    Len(s) >= Len(prefix) /\ SubSeq(s, 1, Len(prefix)) = prefix

\* The text holds the character.
HasChar(text, c) == \E i \in 1..Len(text) : SubSeq(text, i, i) = c

\* The codes of the characters up to U+00FF that repr() writes as \xNN
\* (U+0000 left out).
UnprintableCodes ==
    (1..8) \cup {11, 12} \cup (14..31) \cup (127..160) \cup {173}

HexDigits == "0123456789abcdef"

\* The two hexadecimal digits of a code below 256.
Hex2(code) ==
    SubSeq(HexDigits, (code \div 16) + 1, (code \div 16) + 1)
    \o SubSeq(HexDigits, (code % 16) + 1, (code % 16) + 1)

\* repr() of one character of a string written between `quote`: the
\* backslash, the quote and the characters that are not printable are
\* escaped.
ReprChar(c, quote) ==
    CASE c = quote -> "\\" \o quote
      [] c = "\\" -> "\\\\"
      [] c = "\n" -> "\\n"
      [] c = "\r" -> "\\r"
      [] c = "\t" -> "\\t"
      [] Ord(c) \in UnprintableCodes -> "\\x" \o Hex2(Ord(c))
      [] OTHER -> c

RECURSIVE ReprChars(_, _)
ReprChars(text, quote) ==
    IF Len(text) = 0 THEN ""
    ELSE ReprChar(SubSeq(text, 1, 1), quote)
         \o ReprChars(SubSeq(text, 2, Len(text)), quote)

\* repr() of a string: between apostrophes, or between double quotes when
\* the text holds an apostrophe and no double quote.
ReprStr(text) ==
    LET quote == IF HasChar(text, "'") /\ ~HasChar(text, "\"")
                 THEN "\"" ELSE "'"
    IN quote \o ReprChars(text, quote) \o quote

\* str() and repr() of a JSON value.
RECURSIVE JoinStr(_, _)
JoinStr(q, sep) ==
    IF Len(q) = 0 THEN ""
    ELSE IF Len(q) = 1 THEN q[1]
    ELSE q[1] \o sep \o JoinStr(Tail(q), sep)

RECURSIVE PyRepr(_)
PyRepr(j) ==
    CASE j.t = "str" -> ReprStr(j.v)
      [] j.t = "num" -> ToString(j.v)
      [] j.t = "null" -> "None"
      [] j.t = "bool" -> IF j.v THEN "True" ELSE "False"
      [] j.t = "list" ->
            "[" \o JoinStr([i \in 1..Len(j.v) |-> PyRepr(j.v[i])], ", ") \o "]"
      [] j.t = "obj" ->
            "{" \o JoinStr([i \in 1..Len(j.k) |->
                               ReprStr(j.k[i]) \o ": " \o PyRepr(j.v[j.k[i]])],
                           ", ")
            \o "}"

PyStr(j) == IF j.t = "str" THEN j.v ELSE PyRepr(j)

(***************************************************************************)
(* The database collaborator.  One behaviour is what the database does     *)
(* during one tool call: whether the Database row is found, whether the    *)
(* operation on it raises, and the names / rows / columns it returns.      *)
(***************************************************************************)
NameOrder == <<"dbo", "public", "sales">>

DbErrorText == "connection refused"

\* What database.get_columns returns for a table, one dict per column: a
\* column with every field, one named by "name" alone, one whose
\* "column_name" is empty and whose type and nullable are None, and one with
\* no name at all.
TableColumns ==
    << JObj(<<<<"column_name", JStr("id")>>, <<"type", JStr("INTEGER")>>,
              <<"nullable", JBool(FALSE)>>, <<"default", JNull>>>>),
       JObj(<<<<"name", JStr("label")>>, <<"type", JStr("VARCHAR(50)")>>>>),
       JObj(<<<<"column_name", JStr("")>>, <<"name", JStr("alias")>>,
              <<"type", JNull>>, <<"nullable", JNull>>>>),
       JObj(<<<<"column_name", JNull>>, <<"type", JNum(7)>>,
              <<"nullable", JBool(TRUE)>>>>) >>

DbBehaviours ==
    { [lookup |-> "ok", op |-> "ok", names |-> {"sales", "dbo"}, nrows |-> 2,
       columns |-> TableColumns],
      [lookup |-> "ok", op |-> "raise", names |-> {}, nrows |-> 0,
       columns |-> <<>>],
      [lookup |-> "missing", op |-> "ok", names |-> {}, nrows |-> 0,
       columns |-> <<>>] }

\* sorted(names)
Sorted(names) == SelectSeq(NameOrder, LAMBDA n : n \in names)

\* The rows of a query result: row i is represented by its number.
DbRows(db) == [i \in 1..db.nrows |-> JNum(i)]

DbColumns == <<JStr("id")>>

\* rows[:max_rows]: a negative max_rows counts from the end.
FirstRows(rows, max_rows) ==
    IF max_rows >= 0 THEN SubSeq(rows, 1, Min(Len(rows), max_rows))
    ELSE SubSeq(rows, 1, Len(rows) + max_rows)

\* f"Database with id={database_id} not found"
NotFoundText(database_id) ==
    "Database with id=" \o ToString(database_id) \o " not found"

\* The operations a tool function performs on the database collaborator,
\* each with the arguments it is given: the lookup of the Database row, a
\* metadata call, and database.execute(sql, QueryOptions(...)).
DbLookup(database_id) == [op |-> "lookup", database_id |-> database_id]

DbCatalogCall(op, catalog) == [op |-> op, catalog |-> catalog]

DbSchemaCall(op, catalog, schema) ==
    [op |-> op, catalog |-> catalog, schema |-> schema]

DbExecute(catalog, schema, limit) ==
    [op |-> "execute", catalog |-> catalog, schema |-> schema,
     limit |-> limit]

\* A tool function's outcome: the dict it returns and the collaborator
\* operations it performed.
ToolOut(result, ops) ==
    [exc |-> "", message |-> "", result |-> result, db_ops |-> ops]

\* An exception leaving execute_tool: its type and str(ex).
ToolRaise(exc, message) ==
    [exc |-> exc, message |-> message, result |-> EmptyObj, db_ops |-> <<>>]

\* tool_list_schemas without its try / except: the collaborator's exception
\* leaves the function.
tool_list_schemas_NoCatch(database_id, catalog, db) ==
    IF db.lookup = "missing" \/ db.op = "raise"
    THEN [exc |-> "Exception",
          message |-> IF db.lookup = "missing"
                      THEN NotFoundText(database_id) ELSE DbErrorText,
          result |-> EmptyObj,
          db_ops |-> <<DbLookup(database_id)>>]
    ELSE [exc |-> "", message |-> "",
          result |-> JObj(<<<<"schemas", JStrList(Sorted(db.names))>>>>),
          db_ops |-> <<DbLookup(database_id),
                       DbCatalogCall("get_all_schema_names", catalog)>>]

tool_list_schemas(database_id, catalog, db) ==
    IF db.lookup = "missing"
    THEN ToolOut(JObj(<<<<"error", JStr(NotFoundText(database_id))>>>>),
                 <<DbLookup(database_id)>>)
    ELSE IF db.op = "raise"
    THEN ToolOut(JObj(<<<<"error", JStr(DbErrorText)>>>>),
                 <<DbLookup(database_id),
                   DbCatalogCall("get_all_schema_names", catalog)>>)
    ELSE ToolOut(JObj(<<<<"schemas", JStrList(Sorted(db.names))>>>>),
                 <<DbLookup(database_id),
                   DbCatalogCall("get_all_schema_names", catalog)>>)

tool_list_tables(database_id, schema_name, catalog, db) ==
    IF db.lookup = "missing"
    THEN ToolOut(JObj(<<<<"error", JStr(NotFoundText(database_id))>>>>),
                 <<DbLookup(database_id)>>)
    ELSE IF db.op = "raise"
    THEN ToolOut(JObj(<<<<"error", JStr(DbErrorText)>>>>),
                 <<DbLookup(database_id),
                   DbSchemaCall("get_all_table_names_in_schema", catalog, schema_name)>>)
    ELSE ToolOut(JObj(<<<<"tables", JStrList(Sorted(db.names))>>,
                        <<"schema", schema_name>>>>),
                 <<DbLookup(database_id),
                   DbSchemaCall("get_all_table_names_in_schema", catalog, schema_name)>>)

\* The dict tool_get_table_columns makes of one column: its name from
\* "column_name", or from "name" when that is missing or falsy, str() of its
\* type, and its nullable flag, True when the column has none.
ColumnInfo(col) ==
    LET column_name == DictGet(col.v, "column_name", JNull)
    IN JObj(<<<<"name", IF Truthy(column_name) THEN column_name
                        ELSE DictGet(col.v, "name", JStr("unknown"))>>,
              <<"type", JStr(PyStr(DictGet(col.v, "type", JStr("unknown"))))>>,
              <<"nullable", DictGet(col.v, "nullable", JBool(TRUE))>>>>)

tool_get_table_columns(database_id, table_name, schema_name, catalog, db) ==
    IF db.lookup = "missing"
    THEN ToolOut(JObj(<<<<"error", JStr(NotFoundText(database_id))>>>>),
                 <<DbLookup(database_id)>>)
    ELSE IF db.op = "raise"
    THEN ToolOut(JObj(<<<<"error", JStr(DbErrorText)>>>>),
                 <<DbLookup(database_id),
                   DbSchemaCall("get_columns", catalog, schema_name)>>)
    ELSE LET col_info == [i \in 1..Len(db.columns) |->
                             ColumnInfo(db.columns[i])]
         IN ToolOut(JObj(<<<<"table", table_name>>,
                           <<"schema", schema_name>>,
                           <<"columns", JList(col_info)>>>>),
                    <<DbLookup(database_id),
                      DbSchemaCall("get_columns", catalog, schema_name)>>)

tool_sample_table_data(database_id, table_name, schema_name, catalog, max_rows, db) ==
    IF db.lookup = "missing"
    THEN ToolOut(JObj(<<<<"error", JStr(NotFoundText(database_id))>>>>),
                 <<DbLookup(database_id)>>)
    ELSE IF db.op = "raise"
    THEN ToolOut(JObj(<<<<"error", JStr(DbErrorText)>>>>),
                 <<DbLookup(database_id),
                   DbExecute(catalog, schema_name, max_rows)>>)
    ELSE LET rows == FirstRows(DbRows(db), max_rows)
         IN ToolOut(JObj(<<<<"table", table_name>>,
                           <<"schema", schema_name>>,
                           <<"row_count", JNum(Len(rows))>>,
                           <<"data", JList(rows)>>>>),
                    <<DbLookup(database_id),
                      DbExecute(catalog, schema_name, max_rows)>>)

\* max_values: int = 50
DistinctMaxValues == 50

tool_get_distinct_values(database_id, table_name, schema_name, column_name, catalog, db) ==
    IF db.lookup = "missing"
    THEN ToolOut(JObj(<<<<"error", JStr(NotFoundText(database_id))>>>>),
                 <<DbLookup(database_id)>>)
    ELSE IF db.op = "raise"
    THEN ToolOut(JObj(<<<<"error", JStr(DbErrorText)>>>>),
                 <<DbLookup(database_id),
                   DbExecute(catalog, schema_name, DistinctMaxValues)>>)
    ELSE LET rows == FirstRows(DbRows(db), DistinctMaxValues)
             values == [i \in 1..Len(rows) |-> JStr(ToString(rows[i].v))]
         IN ToolOut(JObj(<<<<"table", table_name>>,
                           <<"column", column_name>>,
                           <<"distinct_count", JNum(Len(values))>>,
                           <<"values", JList(values)>>>>),
                    <<DbLookup(database_id),
                      DbExecute(catalog, schema_name, DistinctMaxValues)>>)

\* max_rows: int = 50
ExecuteSqlMaxRows == 50

PolicyErrorText == "Only SELECT and WITH (CTE) queries are allowed for safety"

\* sql_stripped.startswith("SELECT") or sql_stripped.startswith("WITH")
SqlAllowed(sql) ==
    LET sql_stripped == Upper(Strip(sql))
    IN \/ StartsWith(sql_stripped, CodePoints("SELECT"))
       \/ StartsWith(sql_stripped, CodePoints("WITH"))

\* tool_execute_sql looking the database up before the policy check.
tool_execute_sql_LookupFirst(database_id, sql, schema_name, catalog, db) ==
    IF db.lookup = "missing"
    THEN ToolOut(JObj(<<<<"error", JStr(NotFoundText(database_id))>>,
                        <<"sql", sql>>>>),
                 <<DbLookup(database_id)>>)
    ELSE IF ~SqlAllowed(sql.v)
    THEN ToolOut(JObj(<<<<"error", JStr(PolicyErrorText)>>>>),
                 <<DbLookup(database_id)>>)
    ELSE IF db.op = "raise"
    THEN ToolOut(JObj(<<<<"error", JStr(DbErrorText)>>, <<"sql", sql>>>>),
                 <<DbLookup(database_id),
                   DbExecute(catalog, schema_name, ExecuteSqlMaxRows)>>)
    ELSE LET rows == FirstRows(DbRows(db), ExecuteSqlMaxRows)
         IN ToolOut(JObj(<<<<"columns", JList(DbColumns)>>,
                           <<"row_count", JNum(Len(rows))>>,
                           <<"data", JList(rows)>>>>),
                    <<DbLookup(database_id),
                      DbExecute(catalog, schema_name, ExecuteSqlMaxRows)>>)

tool_execute_sql(database_id, sql, schema_name, catalog, db) ==
    IF sql.t # "str"
    THEN \* sql.strip() raises AttributeError inside the try
         ToolOut(JObj(<<<<"error",
                          JStr("'" \o PyTypeName(sql)
                               \o "' object has no attribute 'strip'")>>,
                        <<"sql", sql>>>>), <<>>)
    ELSE IF ~SqlAllowed(sql.v)
    THEN ToolOut(JObj(<<<<"error", JStr(PolicyErrorText)>>>>), <<>>)
    ELSE IF db.lookup = "missing"
    THEN ToolOut(JObj(<<<<"error", JStr(NotFoundText(database_id))>>,
                        <<"sql", sql>>>>),
                 <<DbLookup(database_id)>>)
    ELSE IF db.op = "raise"
    THEN ToolOut(JObj(<<<<"error", JStr(DbErrorText)>>, <<"sql", sql>>>>),
                 <<DbLookup(database_id),
                   DbExecute(catalog, schema_name, ExecuteSqlMaxRows)>>)
    ELSE LET rows == FirstRows(DbRows(db), ExecuteSqlMaxRows)
         IN ToolOut(JObj(<<<<"columns", JList(DbColumns)>>,
                           <<"row_count", JNum(Len(rows))>>,
                           <<"data", JList(rows)>>>>),
                    <<DbLookup(database_id),
                      DbExecute(catalog, schema_name, ExecuteSqlMaxRows)>>)

(***************************************************************************)
(* The tool dispatcher                                                     *)
(***************************************************************************)
FRONTEND_ACTIONS == {"set_editor_sql"}

\* The names execute_tool dispatches to a server-side tool function.
ServerTools ==
    {"list_schemas", "list_tables", "get_table_columns", "sample_table_data",
     "get_distinct_values", "execute_sql"}

\* The keys execute_tool subscripts of `arguments`, in evaluation order.
RequiredArgs(tool_name) ==
    CASE tool_name = "list_tables" -> <<"schema_name">>
      [] tool_name \in {"get_table_columns", "sample_table_data"} ->
            <<"table_name", "schema_name">>
      [] tool_name = "get_distinct_values" ->
            <<"table_name", "schema_name", "column_name">>
      [] tool_name = "execute_sql" -> <<"sql">>
      [] OTHER -> <<>>

\* The exception of the first arguments[key] that fails ("" when none does):
\* KeyError on a dict without the key, TypeError on a value that is no dict.
SubscriptError(arguments, keys) ==
    IF Len(keys) = 0 THEN ""
    ELSE IF arguments.t # "obj" THEN "TypeError"
    ELSE IF \E i \in 1..Len(keys) : keys[i] \notin DOMAIN arguments.v
    THEN "KeyError"
    ELSE ""

\* str(ex) of subscripting a value that has no subscript.
NotSubscriptableText(j) ==
    "'" \o PyTypeName(j) \o "' object is not subscriptable"

\* str(ex) of that exception: the repr of the first missing key for a
\* KeyError, the interpreter's message for a TypeError.
SubscriptErrorText(arguments, keys) ==
    CASE arguments.t = "obj" ->
            ReprStr(keys[CHOOSE i \in 1..Len(keys) :
                            /\ keys[i] \notin DOMAIN arguments.v
                            /\ \A j \in 1..(i - 1) :
                                  keys[j] \in DOMAIN arguments.v])
      [] arguments.t = "list" ->
            "list indices must be integers or slices, not str"
      [] arguments.t = "str" -> "string indices must be integers, not 'str'"
      [] OTHER -> NotSubscriptableText(arguments)

\* SampleRowCap taking the cap from the model's arguments when they name one.
SampleRowCap_FromArguments(arguments, max_sample_rows) ==
    IF arguments.t = "obj" /\ "max_rows" \in DOMAIN arguments.v
    THEN arguments.v["max_rows"].v
    ELSE max_sample_rows

\* max_rows=max_sample_rows: the row cap handed to tool_sample_table_data.
SampleRowCap(arguments, max_sample_rows) == max_sample_rows

execute_tool(tool_name, arguments, database_id, schema_name, catalog, max_sample_rows, db) ==
    IF tool_name \in FRONTEND_ACTIONS
    THEN IF arguments.t # "obj"
         THEN \* **arguments of a non-mapping
              ToolRaise("TypeError",
                        "'" \o PyTypeName(arguments)
                        \o "' object is not a mapping")
         ELSE ToolOut(DictMerge(JObj(<<<<"action", JStr(tool_name)>>>>),
                                arguments),
                      <<>>)
    ELSE IF tool_name = "list_schemas"
    THEN tool_list_schemas(database_id, catalog, db)
    ELSE IF SubscriptError(arguments, RequiredArgs(tool_name)) # ""
    THEN ToolRaise(SubscriptError(arguments, RequiredArgs(tool_name)),
                   SubscriptErrorText(arguments, RequiredArgs(tool_name)))
    ELSE IF tool_name = "list_tables"
    THEN tool_list_tables(database_id, arguments.v["schema_name"], catalog, db)
    ELSE IF tool_name = "get_table_columns"
    THEN tool_get_table_columns(database_id, arguments.v["table_name"],
                                arguments.v["schema_name"], catalog, db)
    ELSE IF tool_name = "sample_table_data"
    THEN tool_sample_table_data(database_id, arguments.v["table_name"],
                                arguments.v["schema_name"], catalog,
                                SampleRowCap(arguments, max_sample_rows), db)
    ELSE IF tool_name = "get_distinct_values"
    THEN tool_get_distinct_values(database_id, arguments.v["table_name"],
                                  arguments.v["schema_name"],
                                  arguments.v["column_name"], catalog, db)
    ELSE IF tool_name = "execute_sql"
    THEN tool_execute_sql(database_id, arguments.v["sql"], schema_name,
                          catalog, db)
    ELSE ToolOut(JObj(<<<<"error", JStr("Unknown tool: " \o tool_name)>>>>),
                 <<>>)

(***************************************************************************)
(* The result summarizer.  str() and repr() of a JSON value, as the        *)
(* f-strings of _summarize_result render it.                               *)
(***************************************************************************)
\* len(x) is defined for strings, lists and dicts and raises TypeError otherwise.
HasLen(j) == j.t \in {"str", "list", "obj"}

PyLen(j) ==
    IF j.t = "obj" THEN Len(j.k) ELSE Len(j.v)

\* The items ', '.join(x[:5]) joins: the characters of a string, the elements
\* of a list.
JoinItems(j) ==
    IF j.t = "str"
    THEN [i \in 1..Min(Len(j.v), 5) |-> JStr(SubSeq(j.v, i, i))]
    ELSE SubSeq(j.v, 1, Min(Len(j.v), 5))

\* One character of a string as json.dumps writes it (ensure_ascii): the
\* quote, the backslash and the control characters by their escapes, every
\* other character outside U+0020..U+007E as \u00NN.
JsonChar(c) ==
    CASE c = "\"" -> "\\\""
      [] c = "\\" -> "\\\\"
      [] c = "\n" -> "\\n"
      [] c = "\r" -> "\\r"
      [] c = "\t" -> "\\t"
      [] c = "\f" -> "\\f"
      [] Ord(c) = 8 -> "\\b"
      [] Ord(c) < 32 \/ Ord(c) > 126 -> "\\u00" \o Hex2(Ord(c))
      [] OTHER -> c

\* The characters of a text as json.dumps writes them, one half of the text
\* after the other.
RECURSIVE JsonChars(_)
JsonChars(text) ==
    IF Len(text) = 0 THEN ""
    ELSE IF Len(text) = 1 THEN JsonChar(text)
    ELSE LET half == Len(text) \div 2
         IN JsonChars(SubSeq(text, 1, half))
            \o JsonChars(SubSeq(text, half + 1, Len(text)))

\* json.dumps(value, default=str): the items of a dict in insertion order.
RECURSIVE JsonText(_)
JsonText(j) ==
    CASE j.t = "str" -> "\"" \o JsonChars(j.v) \o "\""
      [] j.t = "num" -> ToString(j.v)
      [] j.t = "null" -> "null"
      [] j.t = "bool" -> IF j.v THEN "true" ELSE "false"
      [] j.t = "list" ->
            "[" \o JoinStr([i \in 1..Len(j.v) |-> JsonText(j.v[i])], ", ")
            \o "]"
      [] j.t = "obj" ->
            "{" \o JoinStr([i \in 1..Len(j.k) |->
                               "\"" \o JsonChars(j.k[i]) \o "\": "
                               \o JsonText(j.v[j.k[i]])], ", ")
            \o "}"

SummaryOk(text) == [exc |-> "", message |-> "", summary |-> JStr(text)]

\* An exception leaving _summarize_result: its type and str(ex).
SummaryRaise(exc, message) ==
    [exc |-> exc, message |-> message, summary |-> JNull]

\* str(ex) of len() of a value that has no length.
NoLenText(j) == "object of type '" \o PyTypeName(j) \o "' has no len()"

\* str(ex) of taking a slice of a dict.
SliceOfDictText == "unhashable type: 'slice'"

\* str(ex) of str.join meeting an item that is no string: the first such
\* item, counted from 0.
JoinErrorText(items) ==
    LET i == CHOOSE k \in 1..Len(items) :
                /\ items[k].t # "str"
                /\ \A j \in 1..(k - 1) : items[j].t = "str"
    IN "sequence item " \o ToString(i - 1) \o ": expected str instance, "
       \o PyTypeName(items[i]) \o " found"

\* IsErrorResult giving way to row data.
IsErrorResult_UnlessData(result) ==
    "error" \in DOMAIN result.v /\ "data" \notin DOMAIN result.v

\* if "error" in result
IsErrorResult(result) == "error" \in DOMAIN result.v

summarize_result(result) ==
    IF IsErrorResult(result)
    THEN LET e == result.v["error"]
         IN IF e.t = "str" THEN SummaryOk("Error: " \o Trunc(e.v, 100))
            ELSE IF e.t = "list"
            THEN SummaryOk("Error: " \o
                           PyRepr(JList(SubSeq(e.v, 1, Min(Len(e.v), 100)))))
            ELSE IF e.t = "obj"
            THEN SummaryRaise("TypeError", SliceOfDictText)
            ELSE SummaryRaise("TypeError", NotSubscriptableText(e))
    ELSE IF "schemas" \in DOMAIN result.v
    THEN LET schemas == result.v["schemas"]
         IN IF ~HasLen(schemas)
            THEN SummaryRaise("TypeError", NoLenText(schemas))
            ELSE IF schemas.t = "obj"
            THEN SummaryRaise("TypeError", SliceOfDictText)
            ELSE IF \E i \in 1..Len(JoinItems(schemas)) :
                        JoinItems(schemas)[i].t # "str"
            THEN SummaryRaise("TypeError", JoinErrorText(JoinItems(schemas)))
            ELSE SummaryOk(
                    "Found " \o ToString(PyLen(schemas)) \o " schemas: "
                    \o JoinStr([i \in 1..Len(JoinItems(schemas)) |->
                                    JoinItems(schemas)[i].v], ", ")
                    \o (IF PyLen(schemas) > 5 THEN "..." ELSE ""))
    ELSE IF "tables" \in DOMAIN result.v
    THEN IF ~HasLen(result.v["tables"])
         THEN SummaryRaise("TypeError", NoLenText(result.v["tables"]))
         ELSE SummaryOk("Found " \o ToString(PyLen(result.v["tables"]))
                        \o " tables in "
                        \o PyStr(DictGet(result.v, "schema", JStr("?"))))
    ELSE IF "columns" \in DOMAIN result.v
    THEN IF ~HasLen(result.v["columns"])
         THEN SummaryRaise("TypeError", NoLenText(result.v["columns"]))
         ELSE SummaryOk("Table "
                        \o PyStr(DictGet(result.v, "table", JStr("?")))
                        \o ": " \o ToString(PyLen(result.v["columns"]))
                        \o " columns")
    ELSE IF "data" \in DOMAIN result.v
    THEN SummaryOk(PyStr(DictGet(result.v, "row_count", JStr("?")))
                   \o " rows returned")
    ELSE IF "values" \in DOMAIN result.v
    THEN IF ~HasLen(result.v["values"])
         THEN SummaryRaise("TypeError", NoLenText(result.v["values"]))
         ELSE SummaryOk(ToString(PyLen(result.v["values"]))
                        \o " distinct values in "
                        \o PyStr(DictGet(result.v, "column", JStr("?"))))
    ELSE IF "action" \in DOMAIN result.v
    THEN SummaryOk("Frontend action: " \o PyStr(result.v["action"]))
    ELSE SummaryOk(Trunc(JsonText(result), 100))

\* json.dumps(tool_result, default=str): the text is represented by the value
\* it encodes.
json_dumps(result) == [t |-> "json", v |-> result]

(***************************************************************************)
(* The prompt builder.  An optional text argument is None or a string.     *)
(***************************************************************************)
\* The fixed policy text (its opening words stand for the whole text).
SystemPrompt == "You are an AI SQL assistant"

\* The Markdown code fence (three backquotes in the source; a string of this
\* language cannot hold a backquote).
Fence == "~~~"

\* build_system_prompt emitting the context header without the test.
build_system_prompt_EmptyHeader(database_name, schema_name, current_sql, extra_prompt) ==
    LET context ==
            "\n## Current Context\n"
            \o (IF Truthy(database_name)
                THEN "- Connected database: " \o PyStr(database_name) \o "\n"
                ELSE "")
            \o (IF Truthy(schema_name)
                THEN "- Selected schema: " \o PyStr(schema_name) \o "\n"
                ELSE "")
        editor ==
            "\n## Current Editor Content\n"
            \o "The user's SQL editor currently contains:\n" \o Fence
            \o "sql\n" \o PyStr(current_sql) \o "\n" \o Fence \o "\n"
        extra ==
            "\n## Additional Instructions\n" \o PyStr(extra_prompt) \o "\n"
        parts ==
            <<SystemPrompt, context>>
            \o (IF Truthy(current_sql) /\ Truthy(JStr(Strip(current_sql.v)))
                THEN <<editor>> ELSE <<>>)
            \o (IF Truthy(extra_prompt) THEN <<extra>> ELSE <<>>)
    IN JoinStr(parts, "\n")

build_system_prompt(database_name, schema_name, current_sql, extra_prompt) ==
    LET context ==
            "\n## Current Context\n"
            \o (IF Truthy(database_name)
                THEN "- Connected database: " \o PyStr(database_name) \o "\n"
                ELSE "")
            \o (IF Truthy(schema_name)
                THEN "- Selected schema: " \o PyStr(schema_name) \o "\n"
                ELSE "")
        editor ==
            "\n## Current Editor Content\n"
            \o "The user's SQL editor currently contains:\n" \o Fence
            \o "sql\n" \o PyStr(current_sql) \o "\n" \o Fence \o "\n"
        extra ==
            "\n## Additional Instructions\n" \o PyStr(extra_prompt) \o "\n"
        parts ==
            <<SystemPrompt>>
            \o (IF Truthy(database_name) \/ Truthy(schema_name)
                THEN <<context>> ELSE <<>>)
            \o (IF Truthy(current_sql) /\ Truthy(JStr(Strip(current_sql.v)))
                THEN <<editor>> ELSE <<>>)
            \o (IF Truthy(extra_prompt) THEN <<extra>> ELSE <<>>)
    IN JoinStr(parts, "\n")

(***************************************************************************)
(* The provider adapter: what create_chat_completion can hand back         *)
(***************************************************************************)
\* The tool calls the model chooses among: <<name, argument text>>.
ToolCallPool ==
    { <<"list_schemas", "{}">>,
      <<"list_tables", "{invalid json">>,
      <<"set_editor_sql", "{\"sql\": \"SELECT 1\"}">>,
      <<"set_editor_sql", "{\"type\": \"x\", \"sql\": \"SELECT 1\"}">>,
      <<"set_editor_sql", "{\"error\": 1}">>,
      <<"execute_sql", "{\"sql\": \"DROP TABLE x\"}">>,
      <<"drop_database", "{}">>,
      <<"drop_database", "[1]">> }
    \cup { <<t, ChosenText>> :
             t \in {"list_schemas", "list_tables", "get_table_columns",
                    "sample_table_data", "get_distinct_values",
                    "execute_sql"} }

\* The tool_calls lists of at most n calls; the provider numbers the calls of
\* one assistant message.
ToolCallsOf(q) ==
    [i \in 1..Len(q) |->
        [id |-> "call_" \o ToString(i), type |-> "function",
         function |-> [name |-> q[i][1], arguments |-> q[i][2]]]]

ToolCallLists(n) ==
    { ToolCallsOf(q) : q \in UNION { [1..k -> ToolCallPool] : k \in 1..n } }

UsageFields == {"prompt_tokens", "completion_tokens", "total_tokens"}

\* The "usage" object of a completion, which always has the three fields:
\* zeros when the provider's response has no usage, and otherwise the
\* provider's counts, whose total_tokens need not be the sum of the other two.
UsageChoices ==
    { [prompt_tokens |-> 0, completion_tokens |-> 0, total_tokens |-> 0],
      [prompt_tokens |-> 1, completion_tokens |-> 2, total_tokens |-> 3],
      [prompt_tokens |-> 1, completion_tokens |-> 2, total_tokens |-> 4] }

FinishReasons == {"tool_calls", "stop", "length"}

\* Assistant messages without tool calls to dispatch: the provider's content
\* is a text or None, and the message has no "tool_calls" key when the
\* provider's list is None or empty.
PlainMessages ==
    { [role |-> "assistant", content |-> JStr("Here is the query.")],
      [role |-> "assistant", content |-> JNull] }

\* Assistant messages carrying at most n tool calls.
ToolMessages(n) ==
    { [role |-> "assistant", content |-> JNull, tool_calls |-> tcs] :
      tcs \in ToolCallLists(n) }

\* The dict create_chat_completion returns.
CompletionOf(message, finish_reason, usage) ==
    [message |-> message, finish_reason |-> finish_reason, usage |-> usage]

(***************************************************************************)
(* The orchestration loop: run_agent and run_agent_stream                  *)
(***************************************************************************)
VARIABLES
    mode,           \* "batch" (chat, run_agent) or "stream" (chat_stream,
                    \* run_agent_stream)
    request,        \* the HTTP request: the authentication state and the body
    http,           \* what the endpoint answered outside the loop's result
    max_rounds,     \* config["max_tool_rounds"]
    ctx,            \* database_id, schema_name, catalog, max_sample_rows
    pc,             \* where the invocation stands
    state,          \* the state of the loop's state machine
    round_num,      \* the index of the for loop
    llm_messages,   \* the message history
    total_usage,    \* the running usage total
    steps,          \* run_agent's steps list
    actions,        \* run_agent's actions list
    tool_calls,     \* the tool calls of the round being processed
    tc_idx,         \* the position of the next tool call in tool_calls
    tool_result,    \* run_agent_stream: the result of the call being reported
    events,         \* run_agent_stream: the events yielded so far
    ret,            \* run_agent: the dict returned ({} before the return)
    exc,            \* the type of the exception that left the loop ("" if
                    \* none)
    exc_text,       \* str(ex) of that exception
    adapter_log,    \* history: the outcome of every adapter call
    dispatch_log,   \* history: every tool call handed to execute_tool
    fn_args,        \* a function called on its own: the function and its
                    \* arguments
    fn_results,     \* what its calls returned, in order
    other           \* the local variables of a second invocation that runs
                    \* at the same time, while it is not the one taking a
                    \* step (NoFrame when there is no second invocation)

\* The variables of a function called on its own.
call_vars == <<fn_args, fn_results>>

\* The variables of a request and of the loop it runs.
loop_vars == <<mode, request, http, max_rounds, ctx, pc, state, round_num,
               llm_messages, total_usage, steps, actions, tool_calls, tc_idx,
               tool_result, events, ret, exc, exc_text, adapter_log,
               dispatch_log>>

vars == <<loop_vars, call_vars, other>>

\* The caller's conversation as the request body holds it: messages of every
\* role a caller can send, some with fields besides role and content.  The
\* third is a tool-role message that answers no tool call of this
\* invocation.
CallerMessages ==
    << JObj(<<<<"role", JStr("user")>>,
              <<"content", JStr("show me the sales")>>,
              <<"name", JStr("ana")>>>>),
       JObj(<<<<"role", JStr("assistant")>>,
              <<"content", JNull>>,
              <<"tool_calls",
                JList(<<JObj(<<
                   <<"id", JStr("call_0")>>,
                   <<"type", JStr("function")>>,
                   <<"function",
                     JObj(<<<<"name", JStr("list_schemas")>>,
                            <<"arguments", JStr("{}")>>>>)>>>>)>>)>>>>),
       JObj(<<<<"role", JStr("tool")>>,
              <<"tool_call_id", JStr("call_0")>>,
              <<"content", JStr("{\"schemas\": [\"dbo\"]}")>>>>),
       JObj(<<<<"role", JStr("system")>>,
              <<"content", JStr("Answer in Spanish.")>>>>),
       JObj(<<<<"role", JStr("user")>>,
              <<"content", JStr("only those of 2024")>>>>) >>

\* The "messages" value of a request body carrying CallerMessages.
MessagesJson == JList(CallerMessages)

\* get_ai_config(): the settings the loop reads besides max_tool_rounds.
Config == [max_sample_rows |-> 20, system_prompt_extra |-> JStr("")]

\* The "context" object of a complete request.
FullContext ==
    JObj(<<<<"database_id", JNum(1)>>,
           <<"database_name", JStr("Sales DB")>>,
           <<"schema", JStr("dbo")>>,
           <<"catalog", JStr("main")>>>>)

\* request.get_json(): None without a JSON body.
Bodies ==
    { JNull,
      EmptyObj,
      JObj(<<<<"context", FullContext>>>>),
      JObj(<<<<"messages", JList(<<>>)>>, <<"context", FullContext>>>>),
      JObj(<<<<"messages", MessagesJson>>>>),
      JObj(<<<<"messages", MessagesJson>>, <<"context", EmptyObj>>>>),
      JObj(<<<<"messages", MessagesJson>>,
             <<"context", JObj(<<<<"database_id", JNull>>>>)>>>>),
      JObj(<<<<"messages", MessagesJson>>,
             <<"context", JObj(<<<<"database_id", JNum(0)>>>>)>>>>),
      JObj(<<<<"messages", MessagesJson>>, <<"context", FullContext>>>>) }

\* security_manager.current_user: a logged-in user, the anonymous user, no
\* user, or the lookup raising.
AuthStates == {"user", "anonymous", "none", "raises"}

\* The execution context before the loop is called: nothing chosen yet.
Contexts ==
    { [database_id |-> 0, schema_name |-> JNull, catalog |-> JNull,
       max_sample_rows |-> 0] }

BudgetMessage ==
    "I've been working on this for a while but haven't finished. "
    \o "Here's what I've done so far. You can continue the conversation "
    \o "for me to refine the results."

AdapterErrorText == "timeout"

ZeroUsage ==
    [prompt_tokens |-> 0, completion_tokens |-> 0, total_tokens |-> 0]

NoResponse == [status |-> 0, error |-> ""]

NoCall == [fn |-> ""]

NoFrame == [pc |-> "none"]

\* The loop's variables before the loop is entered.
LoopNotStarted ==
    /\ ctx \in Contexts
    /\ state = "NOT_STARTED"
    /\ round_num = 0
    /\ llm_messages = <<>>
    /\ total_usage = ZeroUsage
    /\ steps = <<>>
    /\ actions = <<>>
    /\ tool_calls = <<>>
    /\ tc_idx = 1
    /\ tool_result = EmptyObj
    /\ events = <<>>
    /\ ret = EmptyDict
    /\ exc = ""
    /\ exc_text = ""
    /\ adapter_log = <<>>
    /\ dispatch_log = <<>>

Init ==
    /\ mode \in {"batch", "stream"}
    /\ request \in [auth : AuthStates, data : Bodies]
    /\ http = NoResponse
    /\ max_rounds \in 0..MaxRounds
    /\ pc = "request"
    /\ LoopNotStarted
    /\ fn_args = NoCall
    /\ fn_results = <<>>
    /\ other = NoFrame

(***************************************************************************)
(* The endpoints chat and chat_stream                                      *)
(***************************************************************************)
\* The authentication check lets the request through: a logged-in user, or
\* the check raising (the exception is logged and the handler goes on).
AuthPasses(auth) == auth \in {"user", "raises"}

\* ValidationError without the test of the message list.
ValidationError_NoMessageCheck(data) ==
    IF ~Truthy(data) THEN "Request body is required"
    ELSE IF ~Truthy(DictGet(DictGet(data.v, "context", EmptyObj).v,
                            "database_id", JNull))
    THEN "database_id is required in context"
    ELSE ""

\* The 400 answer of the validation, "" when the request passes.
ValidationError(data) ==
    IF ~Truthy(data) THEN "Request body is required"
    ELSE IF ~Truthy(DictGet(data.v, "messages", JList(<<>>)))
    THEN "At least one message is required"
    ELSE IF ~Truthy(DictGet(DictGet(data.v, "context", EmptyObj).v,
                            "database_id", JNull))
    THEN "database_id is required in context"
    ELSE ""

\* The request is answered without the loop: 401 or 400.
EndpointRejects ==
    /\ pc = "request"
    /\ \/ /\ ~AuthPasses(request.auth)
          /\ http' = [status |-> 401, error |-> "Authentication required"]
       \/ /\ AuthPasses(request.auth)
          /\ ValidationError(request.data) # ""
          /\ http' = [status |-> 400,
                      error |-> ValidationError(request.data)]
    /\ pc' = "rejected"
    /\ UNCHANGED <<mode, request, max_rounds, ctx, state, round_num,
                   llm_messages, total_usage, steps, actions, tool_calls,
                   tc_idx, tool_result, events, ret, exc, exc_text, adapter_log,
                   dispatch_log>>
    /\ UNCHANGED <<call_vars, other>>

\* CopyMessage handing the caller's message on with every field it has.
CopyMessage_Whole(msg) ==
    [k \in DOMAIN msg.v |-> IF k = "role" THEN msg.v[k].v ELSE msg.v[k]]

\* {"role": msg["role"], "content": msg["content"]}
CopyMessage(msg) == [role |-> msg.v["role"].v, content |-> msg.v["content"]]

\* The request passes: run_agent / run_agent_stream is called and assembles
\* the conversation, the system message first, then every caller message
\* reduced to its role and content.
EndpointCallsLoop ==
    /\ pc = "request"
    /\ AuthPasses(request.auth)
    /\ ValidationError(request.data) = ""
    /\ LET context == DictGet(request.data.v, "context", EmptyObj).v
           messages == DictGet(request.data.v, "messages", JList(<<>>)).v
           system_prompt ==
               build_system_prompt(DictGet(context, "database_name", JNull),
                                   DictGet(context, "schema", JNull),
                                   DictGet(context, "current_sql", JNull),
                                   Config.system_prompt_extra)
       IN /\ ctx' = [database_id |-> context["database_id"].v,
                     schema_name |-> DictGet(context, "schema", JNull),
                     catalog |-> DictGet(context, "catalog", JNull),
                     max_sample_rows |-> Config.max_sample_rows]
          /\ llm_messages' =
                <<[role |-> "system", content |-> JStr(system_prompt)]>>
                \o [i \in 1..Len(messages) |-> CopyMessage(messages[i])]
    /\ pc' = "await"
    /\ state' = "AWAITING_COMPLETION"
    /\ UNCHANGED <<mode, request, http, max_rounds, round_num, total_usage,
                   steps, actions, tool_calls, tc_idx, tool_result, events,
                   ret, exc, exc_text, adapter_log, dispatch_log>>
    /\ UNCHANGED <<call_vars, other>>

\* except Exception as ex: chat answers 500 with str(ex); generate() of
\* chat_stream yields one more frame, an error event with str(ex).
EndpointCatches ==
    /\ pc = "raised"
    /\ http' = [status |-> IF mode = "batch" THEN 500 ELSE 200, error |-> exc_text]
    /\ pc' = "caught"
    /\ UNCHANGED <<mode, request, max_rounds, ctx, state, round_num,
                   llm_messages, total_usage, steps, actions, tool_calls,
                   tc_idx, tool_result, events, ret, exc, exc_text, adapter_log,
                   dispatch_log>>
    /\ UNCHANGED <<call_vars, other>>

\* The frames generate() has sent: one per event of run_agent_stream, and the
\* error frame of its except branch.
SseFrames ==
    [i \in 1..Len(events) |->
        [event |-> events[i].event, data |-> json_dumps(events[i].data)]]
    \o (IF mode = "stream" /\ pc = "caught"
        THEN <<[event |-> "error",
                data |-> json_dumps([error |-> JStr(http.error)])]>>
        ELSE <<>>)

\* AccumulateUsage with total_tokens recomputed from the other two fields.
AccumulateUsage_Recomputed(total, result) ==
    LET usage == DictGet(result, "usage", [k \in {} |-> 0])
        p == total.prompt_tokens + DictGet(usage, "prompt_tokens", 0)
        c == total.completion_tokens + DictGet(usage, "completion_tokens", 0)
    IN [prompt_tokens |-> p, completion_tokens |-> c, total_tokens |-> p + c]

\* total_usage[...] += usage.get(..., 0), with usage = result.get("usage", {})
AccumulateUsage(total, result) ==
    LET usage == DictGet(result, "usage", [k \in {} |-> 0])
    IN [prompt_tokens |->
            total.prompt_tokens + DictGet(usage, "prompt_tokens", 0),
        completion_tokens |->
            total.completion_tokens + DictGet(usage, "completion_tokens", 0),
        total_tokens |->
            total.total_tokens + DictGet(usage, "total_tokens", 0)]

\* ToolsRequested testing the finish reason alone.
ToolsRequested_FinishOnly(result) ==
    result.finish_reason \in {"tool_calls", "stop"}

\* ToolsRequested whatever the finish reason.
ToolsRequested_AnyFinish(result) ==
    /\ "tool_calls" \in DOMAIN result.message
    /\ Len(result.message.tool_calls) > 0

\* if tool_calls and finish_reason in ("tool_calls", "stop")
ToolsRequested(result) ==
    /\ "tool_calls" \in DOMAIN result.message
    /\ Len(result.message.tool_calls) > 0
    /\ result.finish_reason \in {"tool_calls", "stop"}

\* LoopContinues with the bound off by one.
LoopContinues_OffByOne == round_num <= max_rounds

\* for round_num in range(max_rounds): the loop body runs
LoopContinues == round_num < max_rounds

\* The tool calls the adapter may still request in this invocation.
Remaining == MaxDispatch - Len(dispatch_log)

\* ProviderErrorResult built from fresh accumulators.
ProviderErrorResult_Fresh ==
    [response |-> JStr("Error communicating with AI: " \o AdapterErrorText),
     actions |-> <<>>, steps |-> <<>>,
     usage |-> ZeroUsage,
     error |-> TRUE]

\* create_chat_completion raises: the except branch.
ProviderErrorResult ==
    [response |-> JStr("Error communicating with AI: " \o AdapterErrorText),
     actions |-> actions, steps |-> steps, usage |-> total_usage,
     error |-> TRUE]

ProviderErrorEvent ==
    [event |-> "error",
     data |-> [error |->
                  JStr("Error communicating with AI: " \o AdapterErrorText)]]

\* What the history keeps of one adapter call: the messages it was passed,
\* its outcome, the usage object it returned, whether the message carried at
\* least one tool call, whether the finish reason was "tool_calls" or "stop",
\* the assistant message when its tool calls are to be dispatched, the
\* content of a final answer and whether the answer had a content field.
NoMessage == [role |-> "none"]

LogRaise ==
    [sent |-> llm_messages, outcome |-> "raise", usage |-> [k \in {} |-> 0],
     has_tools |-> FALSE, tool_finish |-> FALSE, message |-> NoMessage,
     content |-> JNull, has_content |-> FALSE]

LogResult(outcome, result) ==
    [sent |-> llm_messages, outcome |-> outcome,
     usage |-> DictGet(result, "usage", [k \in {} |-> 0]),
     has_tools |-> IF "tool_calls" \in DOMAIN result.message
                   THEN result.message.tool_calls # <<>> ELSE FALSE,
     tool_finish |-> result.finish_reason \in {"tool_calls", "stop"},
     message |-> IF outcome = "tools" THEN result.message ELSE NoMessage,
     content |-> IF outcome = "final" THEN DictGet(result.message, "content",
                                                   JStr(""))
                 ELSE JNull,
     has_content |-> outcome = "final" /\ "content" \in DOMAIN result.message]

AdapterRaises ==
    /\ pc = "await"
    /\ LoopContinues
    /\ adapter_log' = Append(adapter_log, LogRaise)
    /\ IF mode = "batch"
       THEN ret' = ProviderErrorResult /\ UNCHANGED events
       ELSE events' = Append(events, ProviderErrorEvent) /\ UNCHANGED ret
    /\ pc' = "done"
    /\ state' = "PROVIDER_ERROR"
    /\ UNCHANGED <<mode, request, http, max_rounds, ctx, round_num, llm_messages,
                   total_usage, steps, actions, tool_calls, tc_idx,
                   tool_result, exc, exc_text, dispatch_log>>
    /\ UNCHANGED <<call_vars, other>>

\* The adapter returns tool calls to dispatch: the round's usage is added, the
\* assistant message joins the history, and the for loop over the tool calls
\* starts (with nothing to iterate over, the round is over at once).
AdapterRequestsTools ==
    /\ pc = "await"
    /\ LoopContinues
    /\ \E m \in PlainMessages \cup ToolMessages(Remaining),
          f \in FinishReasons, u \in UsageChoices :
          LET result == CompletionOf(m, f, u) IN
          /\ ToolsRequested(result)
          /\ adapter_log' = Append(adapter_log, LogResult("tools", result))
          /\ total_usage' = AccumulateUsage(total_usage, result)
          /\ llm_messages' = Append(llm_messages, result.message)
          /\ tool_calls' = DictGet(result.message, "tool_calls", <<>>)
          /\ IF Len(tool_calls') = 0
             THEN /\ round_num' = round_num + 1
                  /\ pc' = "await"
                  /\ state' = "AWAITING_COMPLETION"
             ELSE /\ pc' = "tools"
                  /\ state' = "TOOLS_REQUESTED"
                  /\ UNCHANGED round_num
    /\ tc_idx' = 1
    /\ UNCHANGED <<mode, request, http, max_rounds, ctx, steps, actions, tool_result,
                   events, ret, exc, exc_text, dispatch_log>>
    /\ UNCHANGED <<call_vars, other>>

\* assistant_message.get("content", "")
FinalContent(message) == DictGet(message, "content", JStr(""))

\* The adapter returns the final answer: the round's usage is added and the
\* invocation ends.
AdapterFinal ==
    /\ pc = "await"
    /\ LoopContinues
    /\ \E m \in PlainMessages \cup ToolMessages(Remaining),
          f \in FinishReasons, u \in UsageChoices :
          LET result == CompletionOf(m, f, u) IN
          /\ ~ToolsRequested(result)
          /\ adapter_log' = Append(adapter_log, LogResult("final", result))
          /\ total_usage' = AccumulateUsage(total_usage, result)
          /\ IF mode = "batch"
             THEN /\ ret' = [response |-> FinalContent(result.message),
                             actions |-> actions, steps |-> steps,
                             usage |-> total_usage']
                  /\ UNCHANGED events
             ELSE /\ events' =
                        Append(events,
                               [event |-> "response",
                                data |-> [response |->
                                              FinalContent(result.message),
                                          usage |-> total_usage']])
                  /\ UNCHANGED ret
    /\ pc' = "done"
    /\ state' = "FINAL_RESPONSE"
    /\ UNCHANGED <<mode, request, http, max_rounds, ctx, round_num, llm_messages, steps,
                   actions, tool_calls, tc_idx, tool_result, exc, exc_text,
                   dispatch_log>>
    /\ UNCHANGED <<call_vars, other>>

\* BudgetResult flagged as an error as well.
BudgetResult_AsError ==
    [response |-> JStr(BudgetMessage), actions |-> actions, steps |-> steps,
     usage |-> total_usage, warning |-> "max_rounds_exceeded",
     error |-> TRUE]

\* The dict run_agent returns after the for loop.
BudgetResult ==
    [response |-> JStr(BudgetMessage), actions |-> actions, steps |-> steps,
     usage |-> total_usage, warning |-> "max_rounds_exceeded"]

\* The for loop is exhausted.
BudgetExceeded ==
    /\ pc = "await"
    /\ ~LoopContinues
    /\ IF mode = "batch"
       THEN /\ ret' = BudgetResult
            /\ UNCHANGED events
       ELSE /\ events' =
                  Append(events,
                         [event |-> "response",
                          data |-> [response |-> JStr(BudgetMessage),
                                    usage |-> total_usage,
                                    warning |-> "max_rounds_exceeded"]])
            /\ UNCHANGED ret
    /\ pc' = "done"
    /\ state' = "BUDGET_EXCEEDED"
    /\ UNCHANGED <<mode, request, http, max_rounds, ctx, round_num, llm_messages,
                   total_usage, steps, actions, tool_calls, tc_idx,
                   tool_result, exc, exc_text, adapter_log, dispatch_log>>
    /\ UNCHANGED <<call_vars, other>>

(***************************************************************************)
(* TOOLS_REQUESTED: one tool call at a time                                *)
(***************************************************************************)
ToolName(tool_call) == tool_call.function.name

ToolArgs(tool_call) == ParseArgs(tool_call.function.arguments)

\* execute_tool(...) with the loop's execution context
Dispatch(tool_call, db) ==
    execute_tool(ToolName(tool_call), ToolArgs(tool_call), ctx.database_id,
                 ctx.schema_name, ctx.catalog, ctx.max_sample_rows, db)

\* {"type": tool_name, **tool_args}
ActionOf(tool_name, tool_args) ==
    DictMerge(JObj(<<<<"type", JStr(tool_name)>>>>), tool_args)

\* if tool_name in FRONTEND_ACTIONS: an Action is produced
ProducesAction(tool_name) == tool_name \in FRONTEND_ACTIONS

StepOf(tool_name, tool_args, summary) ==
    [type |-> "tool_call", tool |-> tool_name, args |-> tool_args,
     result_summary |-> summary]

\* ToolMessage naming the tool instead of the call it answers.
ToolMessage_NamesTool(tool_call, result) ==
    [role |-> "tool", tool_call_id |-> tool_call.function.name,
     content |-> json_dumps(result)]

ToolMessage(tool_call, result) ==
    [role |-> "tool", tool_call_id |-> tool_call.id,
     content |-> json_dumps(result)]

\* What the history keeps of one dispatch; db_fault: the database
\* collaborator was reached and failed (no such database, or the operation
\* raised).
LogEntry(tool_call, db, out, sum_exc) ==
    [round |-> round_num, id |-> tool_call.id, tool |-> ToolName(tool_call),
     text |-> tool_call.function.arguments, args |-> ToolArgs(tool_call),
     exc |-> out.exc, sum_exc |-> sum_exc, result |-> out.result,
     db_ops |-> out.db_ops,
     db_fault |-> out.db_ops # <<>>
                  /\ (db.lookup = "missing" \/ db.op = "raise")]

\* NextCall leaving the round after the first tool call.
NextCall_EndsRound ==
    /\ tc_idx' = tc_idx + 1
    /\ round_num' = round_num + 1
    /\ pc' = "await"
    /\ state' = "AWAITING_COMPLETION"

\* The tool call is answered: on to the next one, or to the next round.
NextCall ==
    /\ tc_idx' = tc_idx + 1
    /\ IF tc_idx = Len(tool_calls)
       THEN /\ round_num' = round_num + 1
            /\ pc' = "await"
            /\ state' = "AWAITING_COMPLETION"
       ELSE /\ pc' = "tools"
            /\ UNCHANGED <<round_num, state>>

\* An exception leaves the invocation.
Raise(e, message) ==
    /\ pc' = "raised"
    /\ exc' = e
    /\ exc_text' = message
    /\ UNCHANGED <<round_num, state, tc_idx>>

\* run_agent: the body of `for tool_call in tool_calls`.
DispatchBatch ==
    /\ pc = "tools"
    /\ mode = "batch"
    /\ \E db \in DbBehaviours :
          LET tool_call == tool_calls[tc_idx]
              tool_name == ToolName(tool_call)
              tool_args == ToolArgs(tool_call)
              out == Dispatch(tool_call, db)
              sum == summarize_result(out.result)
          IN IF out.exc # ""
             THEN /\ Raise(out.exc, out.message)
                  /\ dispatch_log' =
                        Append(dispatch_log, LogEntry(tool_call, db, out, ""))
                  /\ UNCHANGED <<actions, steps, llm_messages>>
             ELSE /\ dispatch_log' =
                        Append(dispatch_log,
                               LogEntry(tool_call, db, out, sum.exc))
                  /\ actions' =
                        IF ProducesAction(tool_name)
                        THEN Append(actions, ActionOf(tool_name, tool_args))
                        ELSE actions
                  /\ IF sum.exc # ""
                     THEN /\ Raise(sum.exc, sum.message)
                          /\ UNCHANGED <<steps, llm_messages>>
                     ELSE /\ steps' =
                                Append(steps, StepOf(tool_name, tool_args,
                                                     sum.summary))
                          /\ llm_messages' =
                                Append(llm_messages,
                                       ToolMessage(tool_call, out.result))
                          /\ NextCall
                          /\ UNCHANGED <<exc, exc_text>>
    /\ UNCHANGED <<mode, request, http, max_rounds, ctx, total_usage, tool_calls,
                   tool_result, events, ret, adapter_log>>
    /\ UNCHANGED <<call_vars, other>>

\* DispatchStream going on after the step event without being resumed: the
\* tool message is appended and the next call is up.
DispatchStream_RunsAhead ==
    /\ pc = "tools"
    /\ mode = "stream"
    /\ \E db \in DbBehaviours :
          LET tool_call == tool_calls[tc_idx]
              out == Dispatch(tool_call, db)
              sum == summarize_result(out.result)
          IN /\ out.exc = "" /\ sum.exc = ""
             /\ dispatch_log' =
                   Append(dispatch_log, LogEntry(tool_call, db, out, ""))
             /\ events' =
                   Append(events,
                          [event |-> "step",
                           data |-> StepOf(ToolName(tool_call),
                                           ToolArgs(tool_call), sum.summary)])
             /\ tool_result' = out.result
             /\ llm_messages' =
                   Append(llm_messages, ToolMessage(tool_call, out.result))
             /\ NextCall
    /\ UNCHANGED <<mode, request, http, max_rounds, ctx, total_usage, steps,
                   actions, tool_calls, ret, exc, exc_text, adapter_log>>
    /\ UNCHANGED <<call_vars, other>>

\* run_agent_stream: the tool call is executed and its step event yielded.
DispatchStream ==
    /\ pc = "tools"
    /\ mode = "stream"
    /\ \E db \in DbBehaviours :
          LET tool_call == tool_calls[tc_idx]
              tool_name == ToolName(tool_call)
              tool_args == ToolArgs(tool_call)
              out == Dispatch(tool_call, db)
              sum == summarize_result(out.result)
          IN IF out.exc # ""
             THEN /\ Raise(out.exc, out.message)
                  /\ dispatch_log' =
                        Append(dispatch_log, LogEntry(tool_call, db, out, ""))
                  /\ UNCHANGED <<events, tool_result>>
             ELSE /\ dispatch_log' =
                        Append(dispatch_log,
                               LogEntry(tool_call, db, out, sum.exc))
                  /\ IF sum.exc # ""
                     THEN /\ Raise(sum.exc, sum.message)
                          /\ UNCHANGED <<events, tool_result>>
                     ELSE /\ events' =
                                Append(events,
                                       [event |-> "step",
                                        data |-> StepOf(tool_name, tool_args,
                                                        sum.summary)])
                          /\ tool_result' = out.result
                          /\ pc' = "yield_step"
                          /\ UNCHANGED <<exc, exc_text, round_num, state, tc_idx>>
    /\ UNCHANGED <<mode, request, http, max_rounds, ctx, llm_messages, total_usage, steps,
                   actions, tool_calls, ret, adapter_log>>
    /\ UNCHANGED <<call_vars, other>>

\* run_agent_stream resumed after the step event: the action event of a
\* frontend action is yielded, otherwise the tool message is appended.
ResumeAfterStep ==
    /\ pc = "yield_step"
    /\ LET tool_call == tool_calls[tc_idx]
           tool_name == ToolName(tool_call)
       IN IF ProducesAction(tool_name)
          THEN /\ events' =
                     Append(events,
                            [event |-> "action",
                             data |-> ActionOf(tool_name,
                                               ToolArgs(tool_call))])
               /\ pc' = "yield_action"
               /\ UNCHANGED <<llm_messages, round_num, state, tc_idx>>
          ELSE /\ llm_messages' =
                     Append(llm_messages, ToolMessage(tool_call, tool_result))
               /\ NextCall
               /\ UNCHANGED events
    /\ UNCHANGED <<mode, request, http, max_rounds, ctx, total_usage, steps, actions,
                   tool_calls, tool_result, ret, exc, exc_text, adapter_log,
                   dispatch_log>>
    /\ UNCHANGED <<call_vars, other>>

\* run_agent_stream resumed after the action event.
ResumeAfterAction ==
    /\ pc = "yield_action"
    /\ llm_messages' =
          Append(llm_messages, ToolMessage(tool_calls[tc_idx], tool_result))
    /\ NextCall
    /\ UNCHANGED <<mode, request, http, max_rounds, ctx, total_usage, steps, actions,
                   tool_calls, tool_result, events, ret, exc, exc_text, adapter_log,
                   dispatch_log>>
    /\ UNCHANGED <<call_vars, other>>

Next ==
    \/ EndpointRejects
    \/ EndpointCallsLoop
    \/ EndpointCatches
    \/ AdapterRaises
    \/ AdapterRequestsTools
    \/ AdapterFinal
    \/ BudgetExceeded
    \/ DispatchBatch
    \/ DispatchStream
    \/ ResumeAfterStep
    \/ ResumeAfterAction

Spec == Init /\ [][Next]_vars

(***************************************************************************)
(* Two invocations at the same time                                        *)
(***************************************************************************)
\* max_tool_rounds when two invocations run at the same time.
PairRounds == 1

\* Largest number of tool calls the adapter requests over one invocation
\* when two run at the same time.
PairDispatch == 1

\* The local variables of the invocation taking steps.
Frame ==
    [mode |-> mode, request |-> request, http |-> http,
     max_rounds |-> max_rounds, ctx |-> ctx, pc |-> pc, state |-> state,
     round_num |-> round_num, llm_messages |-> llm_messages,
     total_usage |-> total_usage, steps |-> steps, actions |-> actions,
     tool_calls |-> tool_calls, tc_idx |-> tc_idx,
     tool_result |-> tool_result, events |-> events, ret |-> ret,
     exc |-> exc, exc_text |-> exc_text, adapter_log |-> adapter_log,
     dispatch_log |-> dispatch_log]

\* A complete request of a logged-in user.
PairRequest ==
    [auth |-> "user",
     data |-> JObj(<<<<"messages", MessagesJson>>,
                     <<"context", FullContext>>>>)]

\* The frame of an invocation whose request has just arrived.
NewFrame(m) ==
    [mode |-> m, request |-> PairRequest, http |-> NoResponse,
     max_rounds |-> PairRounds,
     ctx |-> [database_id |-> 0, schema_name |-> JNull, catalog |-> JNull,
              max_sample_rows |-> 0],
     pc |-> "request", state |-> "NOT_STARTED", round_num |-> 0,
     llm_messages |-> <<>>, total_usage |-> ZeroUsage, steps |-> <<>>,
     actions |-> <<>>, tool_calls |-> <<>>, tc_idx |-> 1,
     tool_result |-> EmptyObj, events |-> <<>>, ret |-> EmptyDict,
     exc |-> "", exc_text |-> "", adapter_log |-> <<>>,
     dispatch_log |-> <<>>]

\* Switch with total_usage, steps and actions kept in one place for both
\* invocations.
Switch_SharedAccumulators ==
    /\ other # NoFrame
    /\ other' = Frame
    /\ mode' = other.mode
    /\ request' = other.request
    /\ http' = other.http
    /\ max_rounds' = other.max_rounds
    /\ ctx' = other.ctx
    /\ pc' = other.pc
    /\ state' = other.state
    /\ round_num' = other.round_num
    /\ llm_messages' = other.llm_messages
    /\ tool_calls' = other.tool_calls
    /\ tc_idx' = other.tc_idx
    /\ tool_result' = other.tool_result
    /\ events' = other.events
    /\ ret' = other.ret
    /\ exc' = other.exc
    /\ exc_text' = other.exc_text
    /\ adapter_log' = other.adapter_log
    /\ dispatch_log' = other.dispatch_log
    /\ UNCHANGED <<total_usage, steps, actions>>
    /\ UNCHANGED call_vars

\* The other invocation takes the next steps: every variable of run_agent /
\* run_agent_stream is a local of the call, so the two invocations trade
\* places with all of them.
Switch ==
    /\ other # NoFrame
    /\ other' = Frame
    /\ mode' = other.mode
    /\ request' = other.request
    /\ http' = other.http
    /\ max_rounds' = other.max_rounds
    /\ ctx' = other.ctx
    /\ pc' = other.pc
    /\ state' = other.state
    /\ round_num' = other.round_num
    /\ llm_messages' = other.llm_messages
    /\ total_usage' = other.total_usage
    /\ steps' = other.steps
    /\ actions' = other.actions
    /\ tool_calls' = other.tool_calls
    /\ tc_idx' = other.tc_idx
    /\ tool_result' = other.tool_result
    /\ events' = other.events
    /\ ret' = other.ret
    /\ exc' = other.exc
    /\ exc_text' = other.exc_text
    /\ adapter_log' = other.adapter_log
    /\ dispatch_log' = other.dispatch_log
    /\ UNCHANGED call_vars

PairInit ==
    /\ mode \in {"batch", "stream"}
    /\ request = PairRequest
    /\ http = NoResponse
    /\ max_rounds = PairRounds
    /\ pc = "request"
    /\ LoopNotStarted
    /\ fn_args = NoCall
    /\ fn_results = <<>>
    /\ other \in { NewFrame(m) : m \in {"batch", "stream"} }

\* The adapter asks for tool calls, at most PairDispatch over the invocation.
PairRequestsTools ==
    /\ AdapterRequestsTools
    /\ Len(dispatch_log) + Len(tool_calls') <= PairDispatch

PairNext ==
    \/ Switch
    \/ EndpointCallsLoop
    \/ EndpointCatches
    \/ AdapterRaises
    \/ PairRequestsTools
    \/ AdapterFinal
    \/ BudgetExceeded
    \/ DispatchBatch
    \/ DispatchStream
    \/ ResumeAfterStep
    \/ ResumeAfterAction

PairSpec == PairInit /\ [][PairNext]_vars

(***************************************************************************)
(* The summarizer, the prompt builder and the dispatcher called on their   *)
(* own, on arguments drawn from the sets below.                            *)
(***************************************************************************)
\* How often one call is repeated on the same arguments.
MaxCalls == 2

RECURSIVE Repeat(_, _)
Repeat(text, n) == IF n = 0 THEN "" ELSE text \o Repeat(text, n - 1)

\* A text of 120 characters.
LongText == Repeat("0123456789", 12)

\* The keys _summarize_result looks for, and one it does not know.
ResultKeys ==
    {"error", "schemas", "tables", "columns", "data", "values", "action",
     "note"}

\* A value for each key of a result; the texts of "error" and "note" are
\* short or long.
ResultValue(key, long) ==
    CASE key \in {"error", "note"} ->
            IF long THEN JStr(LongText) ELSE JStr("no such table")
      [] key \in {"schemas", "tables", "values"} -> JStrList(<<"dbo", "sales">>)
      [] key = "columns" -> JList(DbColumns)
      [] key = "data" -> JList(<<JNum(1)>>)
      [] key = "action" -> JStr("set_editor_sql")

\* The order in which a result holds those keys.
ResultKeyOrder ==
    <<"error", "schemas", "tables", "columns", "data", "values", "action",
      "note">>

\* Results without a key _summarize_result looks for: two keys in either
\* order, a number, a text with characters json.dumps escapes, nested values.
FallbackResults ==
    { JObj(<<<<"sql", JStr("x")>>, <<"type", JStr("y")>>>>),
      JObj(<<<<"type", JStr("y")>>, <<"sql", JStr("x")>>>>),
      JObj(<<<<"foo", JNum(1)>>>>),
      JObj(<<<<"note", JStr("say \"hi\" \\ \n")>>>>),
      JObj(<<<<"schema", EmptyObj>>,
             <<"rows", JList(<<JNull, JObj(<<<<"a", JStr("b")>>>>)>>)>>>>) }

SummarizeInputs ==
    { [fn |-> "_summarize_result",
       result |->
          LET order == SelectSeq(ResultKeyOrder, LAMBDA k : k \in keys)
          IN JObj([i \in 1..Len(order) |->
                      <<order[i], ResultValue(order[i], long)>>])] :
      keys \in SUBSET ResultKeys, long \in BOOLEAN }
    \cup { [fn |-> "_summarize_result", result |-> r] :
             r \in FallbackResults }

OptionalTexts(texts) == {JNull} \cup { JStr(t) : t \in texts }

PromptInputs ==
    [fn : {"build_system_prompt"},
     database_name : OptionalTexts({"", "Sales DB"}),
     schema_name : OptionalTexts({"dbo"}),
     current_sql : OptionalTexts({"", "  \n", "\f", "SELECT 1", " SELECT 1\n"}),
     extra_prompt : { JStr(t) : t \in {"", " ", "Be brief."} }]

\* SQL texts handed to execute_sql.
SqlTexts ==
    { "SELECT 1", "  select 1", "\n\tWith c AS (SELECT 1) SELECT * FROM c",
      "selected", "DROP TABLE x", "drop table x", " DELETE FROM t", "", "   ",
      "EXPLAIN SELECT 1", "DROP TABLE x; SELECT 1", "SELEC", "(SELECT 1)",
      "-- c\nSELECT 1", "wit", "\fSELECT 1",
      "  with c as (select 1) select 1" }

ToolInputs ==
    [fn : {"execute_tool"},
     tool_name : {"execute_sql"},
     arguments : { JObj(<<<<"sql", JStr(t)>>>>) : t \in SqlTexts },
     database_id : {1},
     schema_name : {JStr("dbo")},
     catalog : {JNull},
     max_sample_rows : {Config.max_sample_rows},
     db : DbBehaviours]

\* What the database returns to a tool called on its own: more rows than a
\* cap allows, exactly as many, fewer, or a failure.
CallDbBehaviours ==
    { [lookup |-> "ok", op |-> "ok", names |-> {"sales", "dbo"}, nrows |-> n,
       columns |-> SubSeq(TableColumns, 1, Min(n, Len(TableColumns)))] :
      n \in {0, 5, 6, 20, 21, 50, 51, 61} }
    \cup { [lookup |-> "ok", op |-> "raise", names |-> {}, nrows |-> 0,
            columns |-> <<>>],
           [lookup |-> "missing", op |-> "ok", names |-> {}, nrows |-> 0,
            columns |-> <<>>] }

\* The arguments the model supplies with a call: the fields the tool requires,
\* alone or together with fields naming a database, a catalog, a schema and
\* row caps of the model's own choosing.
PlainArguments(tool_name) ==
    LET keys == RequiredArgs(tool_name)
    IN JObj([i \in 1..Len(keys) |->
                <<keys[i],
                  CASE keys[i] = "sql" -> JStr("SELECT * FROM t")
                    [] keys[i] = "schema_name" -> JStr("sales")
                    [] OTHER -> JStr("t")>>])

ChosenContext ==
    JObj(<<<<"database_id", JNum(9)>>, <<"catalog", JStr("other")>>,
           <<"schema", JStr("secret")>>, <<"max_rows", JNum(1000)>>,
           <<"max_sample_rows", JNum(1000)>>, <<"max_values", JNum(1000)>>,
           <<"limit", JNum(1000)>>>>)

ToolArguments(tool_name) ==
    { PlainArguments(tool_name),
      DictMerge(ChosenContext, PlainArguments(tool_name)),
      DictMerge(JObj(<<<<"schema_name", JStr("secret")>>>>),
                DictMerge(ChosenContext, PlainArguments(tool_name))),
      EmptyObj }

\* execute_tool called with an execution context of the loop's choosing.
ContextInputs ==
    UNION { [fn : {"execute_tool"},
             tool_name : {t},
             arguments : ToolArguments(t),
             database_id : {1, 7},
             schema_name : {JNull, JStr("dbo")},
             catalog : {JNull, JStr("main")},
             max_sample_rows : {-1, 0, 5, 20, 60},
             db : CallDbBehaviours] :
            t \in ServerTools }

CallInit ==
    /\ mode = "batch"
    /\ request = [auth |-> "user", data |-> JNull]
    /\ http = NoResponse
    /\ max_rounds = 0
    /\ pc = "call"
    /\ LoopNotStarted
    /\ fn_args \in SummarizeInputs \cup PromptInputs \cup ToolInputs
                    \cup ContextInputs
    /\ fn_results = <<>>
    /\ other = NoFrame

CallSummarize ==
    /\ fn_args.fn = "_summarize_result"
    /\ Len(fn_results) < MaxCalls
    /\ fn_results' = Append(fn_results, summarize_result(fn_args.result))
    /\ UNCHANGED <<fn_args, loop_vars, other>>

CallBuildPrompt ==
    /\ fn_args.fn = "build_system_prompt"
    /\ Len(fn_results) < MaxCalls
    /\ fn_results' =
          Append(fn_results,
                 build_system_prompt(fn_args.database_name,
                                     fn_args.schema_name,
                                     fn_args.current_sql,
                                     fn_args.extra_prompt))
    /\ UNCHANGED <<fn_args, loop_vars, other>>

CallExecuteTool ==
    /\ fn_args.fn = "execute_tool"
    /\ Len(fn_results) < MaxCalls
    /\ fn_results' =
          Append(fn_results,
                 execute_tool(fn_args.tool_name, fn_args.arguments,
                              fn_args.database_id, fn_args.schema_name,
                              fn_args.catalog, fn_args.max_sample_rows,
                              fn_args.db))
    /\ UNCHANGED <<fn_args, loop_vars, other>>

CallNext ==
    \/ CallSummarize
    \/ CallBuildPrompt
    \/ CallExecuteTool

CallSpec == CallInit /\ [][CallNext]_vars

(***************************************************************************)
(* Properties                                                              *)
(***************************************************************************)
\* Every adapter call so far returned tool calls that were dispatched.
AllToolRounds ==
    \A i \in DOMAIN adapter_log : adapter_log[i].outcome = "tools"

\* The sum of one field over the usage objects of the successful adapter
\* calls, a missing field counting as zero.
RECURSIVE SumUsage(_, _)
SumUsage(log, field) ==
    IF log = <<>> THEN 0
    ELSE (IF Head(log).outcome # "raise" /\ field \in DOMAIN Head(log).usage
          THEN Head(log).usage[field] ELSE 0)
         + SumUsage(Tail(log), field)

ExpectedUsage(log) ==
    [prompt_tokens |-> SumUsage(log, "prompt_tokens"),
     completion_tokens |-> SumUsage(log, "completion_tokens"),
     total_tokens |-> SumUsage(log, "total_tokens")]

CountEvents(kind) ==
    Cardinality({ i \in DOMAIN events : events[i].event = kind })

\* The dispatched tool calls that are not frontend actions.
ServerDispatched ==
    Cardinality({ i \in DOMAIN dispatch_log :
                     dispatch_log[i].tool \notin FRONTEND_ACTIONS })

FrontendDispatched ==
    Cardinality({ i \in DOMAIN dispatch_log :
                     dispatch_log[i].tool \in FRONTEND_ACTIONS })

\* C1: with max_tool_rounds = N >= 1, when every adapter call returns tool
\* calls that are dispatched and the processing of every tool call completes
\* (nothing raises), the loop makes exactly N adapter calls and then ends in
\* BUDGET_EXCEEDED; there is never an (N+1)-th adapter call.
C1_RoundBudget ==
    /\ Len(adapter_log) <= max_rounds
    /\ (max_rounds >= 1 /\ AllToolRounds /\ pc = "await"
        /\ Len(adapter_log) = max_rounds) => ~LoopContinues
    /\ (max_rounds >= 1 /\ AllToolRounds /\ pc = "done") =>
          /\ Len(adapter_log) = max_rounds
          /\ state = "BUDGET_EXCEEDED"

C1_Witness ==
    /\ pc = "done"
    /\ state = "BUDGET_EXCEEDED"
    /\ max_rounds = MaxRounds
    /\ Len(adapter_log) = MaxRounds
    /\ AllToolRounds

\* C2: at every point of an invocation the running usage total is, field by
\* field, the sum of the usage objects of the adapter calls that succeeded so
\* far, a missing object or field counting as zero; total_tokens is never
\* recomputed from the other two fields.
C2_UsageIsSum ==
    /\ total_usage = ExpectedUsage(adapter_log)
    /\ (pc = "done" /\ mode = "batch") => ret.usage = ExpectedUsage(adapter_log)

C2_Witness ==
    /\ Len(adapter_log) = 2
    /\ adapter_log[1].usage.total_tokens = 4
    /\ adapter_log[2].outcome = "final"
    /\ adapter_log[2].usage.total_tokens = 3
    /\ total_usage.total_tokens = 7
    /\ total_usage.prompt_tokens + total_usage.completion_tokens = 6

\* C3: the result run_agent returns has as many steps as actions plus
\* dispatched tool calls that are not frontend actions; the events
\* run_agent_stream has emitted when its event sequence is over satisfy the
\* same equation between step events and action events.
C3_StepsBalance ==
    /\ (mode = "batch" /\ pc = "done") =>
          Len(ret.steps) = Len(ret.actions) + ServerDispatched
    /\ (mode = "stream" /\ pc \in {"done", "raised", "caught"}) =>
          CountEvents("step") = CountEvents("action") + ServerDispatched

\* C4: every Action recorded by run_agent or emitted by run_agent_stream has a
\* type that is a member of the frontend-action set, whatever argument mapping
\* the model supplies with the call.
C4_ActionTypeIsFrontend ==
    /\ \A i \in DOMAIN actions :
          actions[i].v["type"] \in { JStr(n) : n \in FRONTEND_ACTIONS }
    /\ \A i \in DOMAIN events :
          events[i].event = "action" =>
             events[i].data.v["type"] \in { JStr(n) : n \in FRONTEND_ACTIONS }

\* C5: in run_agent, when the adapter raises on round k after k-1 tool rounds,
\* the loop ends at once in PROVIDER_ERROR: the raise is the last adapter call,
\* no tool call is dispatched in round k, the result has the error flag, its
\* usage is the sum over rounds 1..k-1 and its steps and actions are those of
\* the tool calls of rounds 1..k-1.
C5_BatchProviderError ==
    (mode = "batch"
     /\ \E i \in DOMAIN adapter_log : adapter_log[i].outcome = "raise") =>
       LET k == Len(adapter_log) IN
       /\ adapter_log[k].outcome = "raise"
       /\ \A i \in 1..(k - 1) : adapter_log[i].outcome = "tools"
       /\ pc = "done"
       /\ state = "PROVIDER_ERROR"
       /\ "error" \in DOMAIN ret /\ ret.error = TRUE
       /\ "warning" \notin DOMAIN ret
       /\ ret.usage = ExpectedUsage(SubSeq(adapter_log, 1, k - 1))
       /\ Len(ret.steps) = Len(dispatch_log)
       /\ \A i \in DOMAIN dispatch_log :
             /\ dispatch_log[i].round < k - 1
             /\ ret.steps[i].tool = dispatch_log[i].tool
             /\ ret.steps[i].args = dispatch_log[i].args
       /\ Len(ret.actions) = FrontendDispatched

C5_Witness ==
    /\ mode = "batch"
    /\ state = "PROVIDER_ERROR"
    /\ Len(adapter_log) = 2
    /\ adapter_log[2].outcome = "raise"
    /\ Len(ret.steps) = 1
    /\ Len(ret.actions) = 1
    /\ ret.usage.total_tokens = 3

\* C6: in run_agent_stream, when the adapter raises on round k, the terminal
\* event emitted for PROVIDER_ERROR carries the usage total of rounds 1..k-1.
C6_StreamErrorCarriesUsage ==
    (mode = "stream" /\ state = "PROVIDER_ERROR") =>
       LET last == events[Len(events)] IN
       /\ last.event = "error"
       /\ "usage" \in DOMAIN last.data
       /\ last.data.usage =
             ExpectedUsage(SubSeq(adapter_log, 1, Len(adapter_log) - 1))

\* C7: a completion without tool calls ends the loop in FINAL_RESPONSE; a
\* FINAL_RESPONSE on round k follows exactly k adapter calls, no tool call is
\* dispatched in round k, and on round 1 the result has no steps and no
\* actions (streaming: the response event is the only event).
C7_FinalResponse ==
    /\ \A i \in DOMAIN adapter_log :
          (adapter_log[i].outcome # "raise" /\ ~adapter_log[i].has_tools) =>
             /\ i = Len(adapter_log)
             /\ adapter_log[i].outcome = "final"
             /\ state = "FINAL_RESPONSE"
             /\ pc = "done"
    /\ state = "FINAL_RESPONSE" =>
          /\ pc = "done"
          /\ Len(adapter_log) = round_num + 1
          /\ adapter_log[Len(adapter_log)].outcome = "final"
          /\ \A i \in 1..(Len(adapter_log) - 1) :
                adapter_log[i].outcome = "tools"
          /\ \A i \in DOMAIN dispatch_log : dispatch_log[i].round < round_num
    /\ (state = "FINAL_RESPONSE" /\ Len(adapter_log) = 1) =>
          /\ dispatch_log = <<>>
          /\ IF mode = "batch"
             THEN ret.steps = <<>> /\ ret.actions = <<>>
             ELSE Len(events) = 1 /\ events[1].event = "response"

C7_Witness ==
    /\ state = "FINAL_RESPONSE"
    /\ Len(adapter_log) = 1
    /\ ~adapter_log[1].has_tools
    /\ adapter_log[1].tool_finish
    /\ mode = "stream"
    /\ Len(events) = 1

\* C8: a tool call whose argument text does not parse as JSON does not abort
\* the round: the dispatch returns, with an error result when the tool
\* requires a field.
C8_UnparseableArgsContinue ==
    \A i \in DOMAIN dispatch_log :
       ~json_loads(dispatch_log[i].text).ok =>
          /\ dispatch_log[i].exc = ""
          /\ RequiredArgs(dispatch_log[i].tool) # <<>> =>
                "error" \in DOMAIN dispatch_log[i].result.v

\* C9: execute_tool returns a ToolResult and never raises, for every tool
\* name, argument mapping and behaviour of the database.
C9_ExecuteToolNeverRaises ==
    \A i \in DOMAIN dispatch_log : dispatch_log[i].exc = ""

\* C10: run_agent never raises past its own boundary: the invocation ends by
\* returning a result in FINAL_RESPONSE, PROVIDER_ERROR or BUDGET_EXCEEDED.
C10_BatchNeverRaises ==
    mode = "batch" =>
       /\ pc # "raised"
       /\ pc = "done" =>
             state \in {"FINAL_RESPONSE", "PROVIDER_ERROR", "BUDGET_EXCEEDED"}

(***************************************************************************)
(* Streaming faults, tool failures, the SQL policy                         *)
(***************************************************************************)
Terminal(e) == e.event \in {"response", "error"}

\* run_agent_stream's event sequence is over: it returned or it raised.
StreamOver == mode = "stream" /\ pc \in {"done", "raised", "caught"}

\* The events of one kind, in order.
EventsOf(kind) == SelectSeq(events, LAMBDA e : e.event = kind)

\* The JSON object of the request body, {} when there is none.
BodyDict == IF request.data.t = "obj" THEN request.data.v ELSE EmptyDict

\* The number of messages the caller supplied.
CallerCount == Len(DictGet(BodyDict, "messages", JList(<<>>)).v)

\* The messages of a history behind the system message and the caller's
\* messages: those the loop has appended.
AppendedTo(h) == SubSeq(h, 2 + CallerCount, Len(h))

\* The tool-role messages the loop has appended to the history, in order.
ToolMsgs == SelectSeq(AppendedTo(llm_messages), LAMBDA m : m.role = "tool")

\* The lower-case form of every upper-case letter.
LowerTable ==
    [c \in { SubSeq(UpperLetters, i, i) : i \in 1..Len(UpperLetters) } |->
        LET i == CHOOSE j \in 1..Len(UpperLetters) :
                     SubSeq(UpperLetters, j, j) = c
        IN SubSeq(LowerLetters, i, i)]

RECURSIVE Fold(_)
Fold(text) ==
    IF Len(text) = 0 THEN text
    ELSE (IF SubSeq(text, 1, 1) \in DOMAIN LowerTable
          THEN LowerTable[SubSeq(text, 1, 1)] ELSE SubSeq(text, 1, 1))
         \o Fold(SubSeq(text, 2, Len(text)))

\* The text, trimmed and case-folded, begins with SELECT or WITH.
BeginsSelectOrWith(text) ==
    LET folded == Fold(Strip(text))
    IN \/ Len(folded) >= 6 /\ SubSeq(folded, 1, 6) = "select"
       \/ Len(folded) >= 4 /\ SubSeq(folded, 1, 4) = "with"

\* The SQL text of a dispatch, when its arguments carry one.
HasSqlText(args) ==
    args.t = "obj" /\ "sql" \in DOMAIN args.v /\ args.v["sql"].t = "str"

\* The dispatch is a failing tool call: an unknown name, a failure of the
\* database collaborator, or SQL the policy rejects.
ToolFailed(d) ==
    \/ d.tool \notin ServerTools \cup FRONTEND_ACTIONS
    \/ d.db_fault
    \/ d.tool = "execute_sql" /\ HasSqlText(d.args)
       /\ ~BeginsSelectOrWith(d.args.v["sql"].v)

\* C11: in streaming mode the event sequence of run_agent_stream always ends
\* with a terminal response or error event; it never ends by an exception or
\* without a terminal event.
C11_StreamEndsWithTerminal ==
    StreamOver =>
       /\ exc = ""
       /\ events # <<>>
       /\ Terminal(events[Len(events)])

\* C12: run_agent_stream emits exactly one terminal event and it is the last
\* event; every dispatched tool call yields exactly one step event, and
\* exactly one action event if and only if its name is a frontend action.
C12_StreamEventsExactlyOnce ==
    mode = "stream" =>
       /\ \A i \in DOMAIN events :
             Terminal(events[i]) => i = Len(events) /\ pc = "done"
       /\ StreamOver => Len(events) > 0 /\ Terminal(events[Len(events)])
       /\ Len(EventsOf("step")) = Len(dispatch_log)
       /\ \A i \in DOMAIN dispatch_log :
             /\ EventsOf("step")[i].data.tool = dispatch_log[i].tool
             /\ EventsOf("step")[i].data.args = dispatch_log[i].args
       /\ pc # "yield_step" => Len(EventsOf("action")) = FrontendDispatched

\* C13: a dispatched tool call with an unknown name, a database failure or a
\* policy violation returns an {error} result; a step is recorded for it, the
\* result is appended to the history as the tool-role message of that call,
\* the loop goes on with the remaining calls of the round and with the next
\* adapter call, and PROVIDER_ERROR is only ever entered by an adapter
\* failure.
C13_ToolFailureNotTerminal ==
    /\ \A i \in DOMAIN dispatch_log :
          LET d == dispatch_log[i] IN
          ToolFailed(d) =>
             /\ d.exc = "" /\ d.sum_exc = ""
             /\ "error" \in DOMAIN d.result.v
             /\ d.result.v["error"].t = "str"
             /\ IF mode = "batch"
                THEN /\ Len(steps) >= i
                     /\ steps[i].tool = d.tool /\ steps[i].args = d.args
                ELSE /\ Len(EventsOf("step")) >= i
                     /\ EventsOf("step")[i].data.tool = d.tool
                     /\ EventsOf("step")[i].data.args = d.args
             /\ (i < Len(dispatch_log) \/ pc \in {"tools", "await", "done"}) =>
                   /\ Len(ToolMsgs) >= i
                   /\ ToolMsgs[i] = [role |-> "tool", tool_call_id |-> d.id,
                                     content |-> json_dumps(d.result)]
             /\ i = Len(dispatch_log) =>
                   /\ pc \notin {"raised", "caught"}
                   /\ pc = "tools" => tc_idx <= Len(tool_calls)
                   /\ pc = "done" =>
                         \/ Len(adapter_log) > d.round + 1
                         \/ state = "BUDGET_EXCEEDED"
    /\ state = "PROVIDER_ERROR" =>
          adapter_log[Len(adapter_log)].outcome = "raise"

C13_Witness ==
    /\ Len(dispatch_log) = 2
    /\ dispatch_log[1].db_fault
    /\ dispatch_log[2].tool = "execute_sql"
    /\ ToolFailed(dispatch_log[2])
    /\ dispatch_log[1].round = dispatch_log[2].round
    /\ Len(adapter_log) = 2
    /\ state = "FINAL_RESPONSE"
    /\ Len(ToolMsgs) = 2

\* An execute_sql call made on its own, and the SQL text it was given.
ExecuteSqlCalled ==
    /\ fn_args.fn = "execute_tool"
    /\ fn_args.tool_name = "execute_sql"
    /\ HasSqlText(fn_args.arguments)
    /\ fn_results # <<>>

CalledSql == fn_args.arguments.v["sql"].v

\* C14: an execute_sql call whose SQL text, trimmed and case-folded, does not
\* begin with SELECT or WITH returns exactly the policy error and performs no
\* operation on the database collaborator, neither the lookup nor the query;
\* the collaborator is reached only by texts that pass the check.
C14_PolicyBeforeDatabase ==
    ExecuteSqlCalled =>
       \A i \in DOMAIN fn_results :
          /\ fn_results[i].exc = ""
          /\ ~BeginsSelectOrWith(CalledSql) =>
                /\ fn_results[i].result =
                      JObj(<<<<"error",
                             JStr("Only SELECT and WITH (CTE) queries "
                                  \o "are allowed for safety")>>>>)
                /\ fn_results[i].db_ops = <<>>
          /\ fn_results[i].db_ops # <<>> => BeginsSelectOrWith(CalledSql)

C14_Witness ==
    /\ ExecuteSqlCalled
    /\ CalledSql = "DROP TABLE x; SELECT 1"
    /\ fn_args.db.lookup = "ok" /\ fn_args.db.op = "ok"
    /\ "error" \in DOMAIN fn_results[1].result.v
    /\ fn_results[1].db_ops = <<>>

\* The position of dispatch i among the frontend-action dispatches.
FrontendIndex(i) ==
    Cardinality({ j \in 1..i : dispatch_log[j].tool \in FRONTEND_ACTIONS })

\* The Actions recorded (batch) or emitted (streaming) so far.
ActionsSoFar ==
    IF mode = "batch" THEN actions
    ELSE [k \in 1..Len(EventsOf("action")) |-> EventsOf("action")[k].data]

\* Dispatch i has been processed to the end of the loop body.
Processed(i) == i < Len(dispatch_log) \/ pc \in {"tools", "await", "done"}

\* C15: for a set_editor_sql call with any argument mapping no database
\* operation occurs, an Action of type set_editor_sql with the given sql is
\* recorded or emitted, and the tool-role message of the call serializes a
\* result whose action field is set_editor_sql, together with the given sql.
C15_SetEditorSqlRelayed ==
    \A i \in DOMAIN dispatch_log :
       LET d == dispatch_log[i] IN
       (d.tool = "set_editor_sql" /\ d.args.t = "obj") =>
          /\ d.exc = ""
          /\ d.db_ops = <<>>
          /\ d.result.v["action"] = JStr("set_editor_sql")
          /\ "sql" \in DOMAIN d.args.v => d.result.v["sql"] = d.args.v["sql"]
          /\ Processed(i) =>
                /\ Len(ActionsSoFar) >= FrontendIndex(i)
                /\ ActionsSoFar[FrontendIndex(i)].v["type"] =
                      JStr("set_editor_sql")
                /\ "sql" \in DOMAIN d.args.v =>
                      ActionsSoFar[FrontendIndex(i)].v["sql"] = d.args.v["sql"]
                /\ Len(ToolMsgs) >= i
                /\ ToolMsgs[i].content = json_dumps(d.result)

(***************************************************************************)
(* Budget exhaustion                                                       *)
(***************************************************************************)
\* The payload of the terminal result: the dict run_agent returned, or the
\* data of the last event of run_agent_stream.
TerminalPayload ==
    IF mode = "batch" THEN ret ELSE events[Len(events)].data

\* C16: on budget exhaustion the terminal result carries the fixed message
\* and the warning max_rounds_exceeded and no error flag; the batch result
\* holds every step and action recorded and the usage total of all rounds
\* (the streaming response event the usage total); no result carries both the
\* error flag and the warning, and a FINAL_RESPONSE result carries neither.
C16_BudgetExceededResult ==
    /\ state = "BUDGET_EXCEEDED" =>
          /\ pc = "done"
          /\ mode = "stream" => events[Len(events)].event = "response"
          /\ TerminalPayload.response = JStr(BudgetMessage)
          /\ "warning" \in DOMAIN TerminalPayload
          /\ TerminalPayload.warning = "max_rounds_exceeded"
          /\ "error" \notin DOMAIN TerminalPayload
          /\ TerminalPayload.usage = ExpectedUsage(adapter_log)
          /\ mode = "batch" =>
                /\ ret.steps = steps /\ ret.actions = actions
                /\ Len(ret.steps) = Len(dispatch_log)
                /\ \A i \in DOMAIN dispatch_log :
                      /\ ret.steps[i].tool = dispatch_log[i].tool
                      /\ ret.steps[i].args = dispatch_log[i].args
                /\ Len(ret.actions) = FrontendDispatched
    /\ pc = "done" =>
          ~("error" \in DOMAIN TerminalPayload
            /\ "warning" \in DOMAIN TerminalPayload)
    /\ state = "FINAL_RESPONSE" =>
          /\ "error" \notin DOMAIN TerminalPayload
          /\ "warning" \notin DOMAIN TerminalPayload

C16_Witness ==
    /\ state = "BUDGET_EXCEEDED"
    /\ mode = "batch"
    /\ Len(ret.steps) = 2
    /\ Len(ret.actions) = 1
    /\ ret.usage.total_tokens = 3
    /\ ret.warning = "max_rounds_exceeded"

(***************************************************************************)
(* The summarizer                                                          *)
(***************************************************************************)
\* The shape keys in the order of their priority.
ShapePriority ==
    <<"error", "schemas", "tables", "columns", "data", "values", "action">>

\* The first shape key the result carries, "" when it carries none.
FirstShape(result) ==
    LET present == SelectSeq(ShapePriority, LAMBDA k : k \in DOMAIN result.v)
    IN IF present = <<>> THEN "" ELSE present[1]

\* The first n characters of a text.
Prefix(text, n) == SubSeq(text, 1, IF Len(text) < n THEN Len(text) ELSE n)

\* The text json.dumps writes for each of FallbackResults.
FallbackLine(result) ==
    CASE result =
            JObj(<<<<"sql", JStr("x")>>, <<"type", JStr("y")>>>>) ->
            "{\"sql\": \"x\", \"type\": \"y\"}"
      [] result =
            JObj(<<<<"type", JStr("y")>>, <<"sql", JStr("x")>>>>) ->
            "{\"type\": \"y\", \"sql\": \"x\"}"
      [] result =
            JObj(<<<<"foo", JNum(1)>>>>) ->
            "{\"foo\": 1}"
      [] result =
            JObj(<<<<"note", JStr("say \"hi\" \\ \n")>>>>) ->
            "{\"note\": \"say \\\"hi\\\" \\\\ \\u007f\\n\"}"
      [] result =
            JObj(<<<<"schema", EmptyObj>>,
            <<"rows", JList(<<JNull, JObj(<<<<"a", JStr("b")>>>>)>>)>>>>) ->
            "{\"schema\": {}, \"rows\": [null, {\"a\": \"b\"}]}"

\* The line expected for a result over the values of ResultValue, or one of
\* FallbackResults.
ExpectedLine(result) ==
    LET shape == FirstShape(result) IN
    CASE shape = "error" -> "Error: " \o Prefix(result.v["error"].v, 100)
      [] shape = "schemas" -> "Found 2 schemas: dbo, sales"
      [] shape = "tables" -> "Found 2 tables in ?"
      [] shape = "columns" -> "Table ?: 1 columns"
      [] shape = "data" -> "? rows returned"
      [] shape = "values" -> "2 distinct values in ?"
      [] shape = "action" -> "Frontend action: set_editor_sql"
      [] shape = "" ->
            IF result \in FallbackResults THEN FallbackLine(result)
            ELSE IF "note" \in DOMAIN result.v
            THEN Prefix("{\"note\": \"" \o result.v["note"].v \o "\"}", 100)
            ELSE "{}"

\* C17: _summarize_result renders the first shape key present in the order
\* error, schemas, tables, columns, data, values, action, and otherwise the
\* JSON rendering cut to 100 characters; a result with an error key is
\* summarized as the error line, the error text cut to 100 characters,
\* whatever other keys it carries.
C17_SummaryPriority ==
    fn_args.fn = "_summarize_result" =>
       \A i \in DOMAIN fn_results :
          /\ fn_results[i].exc = ""
          /\ fn_results[i].summary = JStr(ExpectedLine(fn_args.result))
          /\ "error" \in DOMAIN fn_args.result.v =>
                /\ StartsWith(fn_results[i].summary.v, "Error: ")
                /\ Len(fn_results[i].summary.v) <= 107

C17_Witness ==
    /\ fn_args.fn = "_summarize_result"
    /\ {"error", "data", "schemas"} \subseteq DOMAIN fn_args.result.v
    /\ Len(fn_args.result.v["error"].v) > 100
    /\ fn_results # <<>>
    /\ Len(fn_results[1].summary.v) = 107

\* C18: _summarize_result returns a text for every result execute_tool
\* returns to the loop, the results of frontend actions included; it never
\* raises.
C18_SummarizerTotal ==
    \A i \in DOMAIN dispatch_log :
       dispatch_log[i].exc = "" =>
          /\ dispatch_log[i].sum_exc = ""
          /\ pc \notin {"raised", "caught"}

(***************************************************************************)
(* The prompt builder                                                      *)
(***************************************************************************)
\* The first position at which pat occurs in text, 0 when it does not occur.
Find(text, pat) ==
    LET hits == { i \in 1..(Len(text) - Len(pat) + 1) :
                    SubSeq(text, i, i + Len(pat) - 1) = pat }
    IN IF hits = {} THEN 0
       ELSE CHOOSE i \in hits : \A j \in hits : i <= j

\* An optional text is supplied: it is a text and not the empty one.
Supplied(j) == j.t = "str" /\ j.v # ""

\* Position p comes before position q when both sections are present.
Before(p, q) == (p > 0 /\ q > 0) => p < q

PromptSections(text) ==
    [context |-> Find(text, "\n## Current Context\n"),
     editor |-> Find(text, "\n## Current Editor Content\n"),
     extra |-> Find(text, "\n## Additional Instructions\n")]

\* C19: build_system_prompt returns the policy text followed, in this order,
\* by the Current Context section iff a database or schema name is supplied,
\* the Current Editor Content section iff current_sql is non-empty after
\* trimming (quoting it verbatim), and the Additional Instructions section
\* iff the extra instructions are non-empty; a section whose condition is
\* false leaves no header, and equal inputs give equal texts.
C19_PromptSections ==
    fn_args.fn = "build_system_prompt" =>
       \A i \in DOMAIN fn_results :
          LET text == fn_results[i]
              at == PromptSections(text)
              sql == fn_args.current_sql
          IN /\ StartsWith(text, SystemPrompt)
             /\ at.context > 0 <=>
                   (Supplied(fn_args.database_name)
                    \/ Supplied(fn_args.schema_name))
             /\ at.editor > 0 <=> (Supplied(sql) /\ Strip(sql.v) # "")
             /\ at.extra > 0 <=> Supplied(fn_args.extra_prompt)
             /\ \A p \in {at.context, at.editor, at.extra} :
                   p > 0 => p > Len(SystemPrompt)
             /\ Before(at.context, at.editor)
             /\ Before(at.editor, at.extra)
             /\ Before(at.context, at.extra)
             /\ Supplied(fn_args.database_name) =>
                   Find(text, "- Connected database: "
                              \o fn_args.database_name.v \o "\n") > at.context
             /\ Supplied(fn_args.schema_name) =>
                   Find(text, "- Selected schema: "
                              \o fn_args.schema_name.v \o "\n") > at.context
             /\ at.editor > 0 =>
                   Find(text, Fence \o "sql\n" \o sql.v \o "\n" \o Fence)
                      > at.editor
             /\ at.extra > 0 =>
                   Find(text, "\n## Additional Instructions\n"
                              \o fn_args.extra_prompt.v \o "\n") = at.extra
             /\ (at.context = 0 /\ at.editor = 0 /\ at.extra = 0) =>
                   text = SystemPrompt
             /\ \A j \in DOMAIN fn_results : fn_results[j] = text

C19_Witness ==
    /\ fn_args.fn = "build_system_prompt"
    /\ fn_args.database_name = JNull
    /\ fn_args.schema_name = JStr("dbo")
    /\ fn_args.current_sql = JStr(" SELECT 1\n")
    /\ fn_args.extra_prompt = JStr("Be brief.")
    /\ Len(fn_results) = 2
    /\ PromptSections(fn_results[2]).context > 0
    /\ PromptSections(fn_results[2]).extra > 0

(***************************************************************************)
(* The endpoints                                                           *)
(***************************************************************************)
\* The request carries a non-empty message history.
HasMessages ==
    /\ "messages" \in DOMAIN BodyDict
    /\ BodyDict["messages"].t = "list"
    /\ Len(BodyDict["messages"].v) > 0

\* The request carries a database identifier.
HasDatabaseId ==
    /\ "context" \in DOMAIN BodyDict
    /\ BodyDict["context"].t = "obj"
    /\ "database_id" \in DOMAIN BodyDict["context"].v
    /\ BodyDict["context"].v["database_id"].t = "num"

\* run_agent / run_agent_stream has been invoked.
LoopEntered == state # "NOT_STARTED"

\* C20: a request with an empty or missing message history, or without a
\* database identifier, is answered by chat / chat_stream without the loop:
\* run_agent / run_agent_stream is not invoked and no adapter or tool call
\* happens; the loop is entered only with a non-empty message sequence and a
\* database identifier.
C20_InvalidRequestRejected ==
    /\ (~HasMessages \/ ~HasDatabaseId) =>
          /\ ~LoopEntered
          /\ pc \in {"request", "rejected"}
          /\ pc = "rejected" => http.status \in {400, 401}
          /\ llm_messages = <<>>
          /\ adapter_log = <<>> /\ dispatch_log = <<>>
          /\ events = <<>> /\ ret = EmptyDict
    /\ (LoopEntered \/ adapter_log # <<>> \/ dispatch_log # <<>>) =>
          /\ HasMessages /\ HasDatabaseId
          /\ Len(llm_messages) >= 1 + Len(BodyDict["messages"].v)
          /\ ctx.database_id = BodyDict["context"].v["database_id"].v
    /\ pc = "rejected" => ~LoopEntered

C20_Witness ==
    /\ pc = "rejected"
    /\ request.auth = "user"
    /\ "messages" \in DOMAIN BodyDict
    /\ BodyDict["messages"] = JList(<<>>)
    /\ HasDatabaseId
    /\ http = [status |-> 400, error |-> "At least one message is required"]

(***************************************************************************)
(* The execution context and the row caps                                  *)
(***************************************************************************)
\* execute_tool has been called on its own.
ToolCalled == fn_args.fn = "execute_tool" /\ fn_results # <<>>

\* What an operation on the collaborator uses of the execution context: the
\* database identifier, the catalog and the row cap.
ContextUsed(op) ==
    [k \in DOMAIN op \cap {"op", "database_id", "catalog", "limit"} |-> op[k]]

\* The rows or values a result returns, <<>> when it returns none.
ReturnedRows(result) ==
    IF "data" \in DOMAIN result.v THEN result.v["data"].v
    ELSE IF "values" \in DOMAIN result.v THEN result.v["values"].v
    ELSE <<>>

\* The execution context the request selects.
SelectedContext == DictGet(BodyDict, "context", EmptyObj).v

\* The dispatch of the same tool call by this invocation's loop, had the
\* model supplied other arguments with it.
WithArguments(tool_name, arguments, db) ==
    execute_tool(tool_name, arguments, ctx.database_id, ctx.schema_name,
                 ctx.catalog, ctx.max_sample_rows, db)

\* The loop stands where a dispatch leaves it: at the next tool call, at the
\* next adapter call, at the step event, or at the exception.
JustDispatched ==
    dispatch_log # <<>> /\ pc \in {"tools", "await", "yield_step", "raised"}

\* C21: the execution context of every dispatch of an invocation is the
\* loop's and not the model's: every operation on the database uses the
\* database identifier and the catalog the request selected, execute_sql runs
\* under the schema the request selected, and sample_table_data passes the
\* configured max_sample_rows as the limit, whatever the arguments hold; two
\* dispatches of one tool whose arguments differ use the same database
\* identifier, catalog and row cap; and the dispatch just made, had the model
\* supplied any other arguments with it, would use the same database
\* identifier, catalog and row cap in every operation and return as many
\* rows, those of sample_table_data being rows[:max_sample_rows] of what the
\* database holds.
C21_ContextFromLoop ==
    /\ \A i \in DOMAIN dispatch_log :
          LET d == dispatch_log[i] IN
          /\ \A k \in DOMAIN d.db_ops :
                LET op == d.db_ops[k] IN
                /\ "database_id" \in DOMAIN op =>
                      op.database_id = SelectedContext["database_id"].v
                /\ "catalog" \in DOMAIN op =>
                      op.catalog = DictGet(SelectedContext, "catalog", JNull)
                /\ (d.tool = "execute_sql" /\ "schema" \in DOMAIN op) =>
                      op.schema = DictGet(SelectedContext, "schema", JNull)
                /\ (d.tool = "sample_table_data" /\ "limit" \in DOMAIN op) =>
                      op.limit = Config.max_sample_rows
          /\ \A j \in DOMAIN dispatch_log :
                dispatch_log[j].tool = d.tool =>
                   \A k \in DOMAIN d.db_ops \cap DOMAIN dispatch_log[j].db_ops :
                      ContextUsed(dispatch_log[j].db_ops[k]) =
                         ContextUsed(d.db_ops[k])
    /\ JustDispatched =>
          LET d == dispatch_log[Len(dispatch_log)] IN
          \A db \in DbBehaviours :
             LET out == WithArguments(d.tool, d.args, db) IN
             \A given \in ToolArguments(d.tool) :
                LET alt == WithArguments(d.tool, given, db) IN
                /\ \A k \in DOMAIN out.db_ops \cap DOMAIN alt.db_ops :
                      ContextUsed(alt.db_ops[k]) = ContextUsed(out.db_ops[k])
                /\ (Len(out.db_ops) = 2 /\ Len(alt.db_ops) = 2) =>
                      Len(ReturnedRows(alt.result)) =
                         Len(ReturnedRows(out.result))
    /\ (JustDispatched
        /\ dispatch_log[Len(dispatch_log)].tool = "sample_table_data") =>
          LET d == dispatch_log[Len(dispatch_log)] IN
          \A db \in CallDbBehaviours :
             \A given \in ToolArguments(d.tool) \cup {d.args} :
                LET alt == WithArguments(d.tool, given, db) IN
                "data" \in DOMAIN alt.result.v =>
                   ReturnedRows(alt.result) =
                      FirstRows(DbRows(db), Config.max_sample_rows)

C21_Witness ==
    /\ Len(dispatch_log) = 2
    /\ dispatch_log[1].tool = "list_schemas"
    /\ dispatch_log[1].args = EmptyObj
    /\ dispatch_log[2].tool = "list_schemas"
    /\ dispatch_log[2].args.t = "obj"
    /\ "database_id" \in DOMAIN dispatch_log[2].args.v
    /\ dispatch_log[2].args.v["database_id"] = JNum(9)
    /\ dispatch_log[2].args.v["catalog"] = JStr("other")
    /\ Len(dispatch_log[1].db_ops) = 2
    /\ dispatch_log[2].db_ops = dispatch_log[1].db_ops
    /\ dispatch_log[2].db_ops[1].database_id = 1
    /\ dispatch_log[2].db_ops[2].catalog = JStr("main")

\* The count a row-returning result reports.
ReportedCount(result) ==
    IF "row_count" \in DOMAIN result.v THEN result.v["row_count"]
    ELSE DictGet(result.v, "distinct_count", JNull)

\* A call that returned rows or values.
ReturnsRows(result) == "data" \in DOMAIN result.v \/ "values" \in DOMAIN result.v

\* C22: however many rows the database returns, sample_table_data and
\* get_distinct_values return at most max_sample_rows rows / values,
\* execute_sql returns at most 50 rows, and the reported row_count /
\* distinct_count is the number of rows / values returned.
C22_RowsCapped ==
    ToolCalled =>
       \A i \in DOMAIN fn_results :
          LET result == fn_results[i].result IN
          ReturnsRows(result) =>
             /\ ReportedCount(result) = JNum(Len(ReturnedRows(result)))
             /\ fn_args.tool_name \in {"sample_table_data",
                                       "get_distinct_values"} =>
                   Len(ReturnedRows(result)) <= fn_args.max_sample_rows
             /\ fn_args.tool_name = "execute_sql" =>
                   Len(ReturnedRows(result)) <= 50

(***************************************************************************)
(* Termination and the round structure                                     *)
(***************************************************************************)
TerminalStates == {"FINAL_RESPONSE", "PROVIDER_ERROR", "BUDGET_EXCEEDED"}

\* The invocation of the loop is over: it has returned, or an exception has
\* left it.
LoopOver == pc \in {"done", "raised", "caught"}

\* C24: an invocation of the loop ends in exactly one of FINAL_RESPONSE,
\* PROVIDER_ERROR and BUDGET_EXCEEDED, whether its adapter calls and tool
\* dispatches return or raise; it makes at most max_tool_rounds adapter calls
\* (none, ending in BUDGET_EXCEEDED, when max_tool_rounds is 0); and a
\* terminal state is entered only by returning, after which no adapter call
\* or tool dispatch follows.
C24_Terminates ==
    /\ Len(adapter_log) <= max_rounds
    /\ LoopOver => pc = "done" /\ state \in TerminalStates
    /\ (LoopOver /\ max_rounds = 0) =>
          adapter_log = <<>> /\ state = "BUDGET_EXCEEDED"
    /\ state \in TerminalStates => pc = "done"

\* The assistant messages the loop has appended to the history, in order.
AssistantMsgs ==
    SelectSeq(AppendedTo(llm_messages), LAMBDA m : m.role = "assistant")

\* The adapter calls that were answered by tool calls to dispatch.
ToolRounds == { i \in DOMAIN adapter_log : adapter_log[i].outcome = "tools" }

\* The dispatches of the round opened by adapter call i.
DispatchesOf(i) == { k \in DOMAIN dispatch_log : dispatch_log[k].round = i - 1 }

\* The Steps recorded (batch) or emitted (streaming) so far.
StepsSoFar ==
    IF mode = "batch" THEN steps
    ELSE [k \in 1..Len(EventsOf("step")) |-> EventsOf("step")[k].data]

\* C25: a successful adapter call leads to TOOLS_REQUESTED iff its message
\* carries at least one tool call and the finish reason is tool_calls or
\* stop; every other completion ends the loop in FINAL_RESPONSE with none of
\* its tool calls dispatched, no step or action recorded for them, and the
\* assistant message not appended to the history.
C25_ToolsRequestedIff ==
    /\ \A i \in DOMAIN adapter_log :
          LET a == adapter_log[i] IN
          /\ a.outcome # "raise" =>
                (a.outcome = "tools" <=> (a.has_tools /\ a.tool_finish))
          /\ a.outcome = "tools" =>
                \/ DispatchesOf(i) # {}
                \/ i = Len(adapter_log) /\ pc = "tools" /\ tc_idx = 1
                   /\ state = "TOOLS_REQUESTED"
          /\ a.outcome = "final" =>
                /\ i = Len(adapter_log)
                /\ pc = "done" /\ state = "FINAL_RESPONSE"
                /\ DispatchesOf(i) = {}
                /\ Len(StepsSoFar) = Len(dispatch_log)
                /\ Len(ActionsSoFar) = FrontendDispatched
    /\ pc = "tools" => state = "TOOLS_REQUESTED"
    /\ state = "TOOLS_REQUESTED" =>
          adapter_log[Len(adapter_log)].outcome = "tools"
    /\ Len(AssistantMsgs) = Cardinality(ToolRounds)

C25_Witness ==
    /\ Len(adapter_log) = 2
    /\ adapter_log[1].outcome = "tools"
    /\ adapter_log[2].outcome = "final"
    /\ adapter_log[2].has_tools /\ ~adapter_log[2].tool_finish
    /\ state = "FINAL_RESPONSE"
    /\ Len(dispatch_log) = 1
    /\ Len(AssistantMsgs) = 1
    /\ Len(StepsSoFar) = 1

\* The dispatches of the round opened by adapter call i, in the order in
\* which they were made.
RoundDispatches(i) ==
    SelectSeq(dispatch_log, LAMBDA d : d.round = i - 1)

\* C26: the tool calls of a round are dispatched one at a time in the order
\* the adapter returned them, a call being dispatched only after the result
\* of the one before it has been appended to the history; every tool call of
\* a round is dispatched and answered before the next adapter call; rounds
\* follow one another, so at most one dispatch is unanswered at any time.
C26_SequentialDispatch ==
    /\ Len(ToolMsgs) \in {Len(dispatch_log), Len(dispatch_log) - 1}
    /\ \A k \in DOMAIN ToolMsgs : ToolMsgs[k].tool_call_id = dispatch_log[k].id
    /\ pc \in {"tools", "await", "done"} => Len(ToolMsgs) = Len(dispatch_log)
    /\ \A k \in DOMAIN dispatch_log :
          /\ dispatch_log[k].round + 1 \in ToolRounds
          /\ k > 1 => dispatch_log[k - 1].round <= dispatch_log[k].round
    /\ \A i \in ToolRounds :
          LET requested == AssistantMsgs[i].tool_calls
              made == RoundDispatches(i)
          IN /\ Len(made) <= Len(requested)
             /\ \A k \in DOMAIN made :
                   /\ made[k].id = requested[k].id
                   /\ made[k].tool = requested[k].function.name
                   /\ made[k].text = requested[k].function.arguments
             /\ (i < Len(adapter_log) \/ pc \in {"await", "done"}) =>
                   Len(made) = Len(requested)
             /\ i < Len(adapter_log) =>
                   \A k \in DOMAIN dispatch_log :
                      dispatch_log[k].round >= i \/ k <= Len(ToolMsgs)

C26_Witness ==
    /\ mode = "stream"
    /\ Len(adapter_log) = 2
    /\ adapter_log[1].outcome = "tools"
    /\ Len(AssistantMsgs[1].tool_calls) = 2
    /\ Len(RoundDispatches(1)) = 2
    /\ RoundDispatches(1)[1].tool = "set_editor_sql"
    /\ RoundDispatches(1)[2].tool = "list_schemas"
    /\ Len(ToolMsgs) = 2

(***************************************************************************)
(* The message history                                                     *)
(***************************************************************************)
\* The message carries tool calls.
CarriesToolCalls(m) ==
    /\ m.role = "assistant"
    /\ "tool_calls" \in DOMAIN m
    /\ m.tool_calls # <<>>

\* From position i on, every assistant message with tool calls is followed
\* at once by one tool-role message per call, in order and with the ids of
\* the calls, and no other tool-role message occurs.
RECURSIVE Answered(_, _)
Answered(h, i) ==
    IF i > Len(h) THEN TRUE
    ELSE IF h[i].role = "tool" THEN FALSE
    ELSE IF CarriesToolCalls(h[i])
    THEN LET n == Len(h[i].tool_calls)
         IN /\ i + n <= Len(h)
            /\ \A k \in 1..n :
                  /\ h[i + k].role = "tool"
                  /\ h[i + k].tool_call_id = h[i].tool_calls[k].id
            /\ Answered(h, i + n + 1)
    ELSE Answered(h, i + 1)

IsPrefix(p, q) == Len(p) <= Len(q) /\ SubSeq(q, 1, Len(p)) = p

\* The tool-role messages the loop has appended to a history, in order.
ToolMsgsOf(h) == SelectSeq(AppendedTo(h), LAMBDA m : m.role = "tool")

\* The history passed to adapter call i extends the one passed to the call
\* before it, and the history now extends it.
Extends(sent, i) ==
    /\ IsPrefix(sent, llm_messages)
    /\ i > 1 => IsPrefix(adapter_log[i - 1].sent, sent)

\* C27: the history passed to an adapter call extends the one passed to the
\* call before it (and the history now extends them all); its head is the
\* system message and the caller's messages, each with the role the caller
\* gave it, a tool-role message among them included; behind that head every
\* assistant message with tool calls is followed at once by one tool-role
\* message per call, in order, whose tool_call_id is the id of the call and
\* whose content is the serialized result of that dispatch, and there is no
\* other tool-role message behind the head.
C27_HistoryWellFormed ==
    \A i \in DOMAIN adapter_log :
       LET sent == adapter_log[i].sent IN
       /\ Extends(sent, i)
       /\ Len(sent) >= 1 + CallerCount
       /\ sent[1].role = "system"
       /\ \A j \in 1..CallerCount :
             sent[j + 1] = CopyMessage(BodyDict["messages"].v[j])
       /\ Answered(sent, 2 + CallerCount)
       /\ \A k \in DOMAIN ToolMsgsOf(sent) :
             /\ k <= Len(dispatch_log)
             /\ ToolMsgsOf(sent)[k] =
                   [role |-> "tool", tool_call_id |-> dispatch_log[k].id,
                    content |-> json_dumps(dispatch_log[k].result)]

C27_Witness ==
    /\ Len(adapter_log) = 2
    /\ Len(adapter_log[1].sent) = 6
    /\ adapter_log[1].sent[4] =
          [role |-> "tool", content |-> JStr("{\"schemas\": [\"dbo\"]}")]
    /\ Len(adapter_log[2].sent) = 9
    /\ CarriesToolCalls(adapter_log[2].sent[7])
    /\ Len(adapter_log[2].sent[7].tool_calls) = 2
    /\ adapter_log[2].sent[9].role = "tool"
    /\ adapter_log[2].sent[9].tool_call_id = "call_2"
    /\ "error" \in DOMAIN adapter_log[2].sent[8].content.v.v

\* C27 as stated, of the whole history: every assistant message with tool
\* calls in it is followed at once by one tool-role message per call, and no
\* tool-role message exists without such a preceding assistant message.
C27_NoOtherToolMessage ==
    \A i \in DOMAIN adapter_log :
       LET sent == adapter_log[i].sent IN
       /\ Extends(sent, i)
       /\ Answered(sent, 1)

(***************************************************************************)
(* The step log                                                            *)
(***************************************************************************)
\* The Step of a dispatch: its tool name, its resolved arguments and the
\* summary of its result.
StepOfDispatch(d) ==
    StepOf(d.tool, d.args, summarize_result(d.result).summary)

\* The frontend-action dispatches whose Action has been recorded or emitted.
ActionsDue ==
    IF pc = "yield_step" /\ ProducesAction(ToolName(tool_calls[tc_idx]))
    THEN FrontendDispatched - 1
    ELSE FrontendDispatched

\* C28: exactly one Step is recorded for every dispatched tool call, whether
\* server-executed, a frontend action or of unknown name; the i-th Step is
\* and stays the tool name, the resolved arguments and the result summary of
\* the i-th dispatch over all rounds; the i-th Action is that of the i-th
\* frontend-action dispatch.
C28_StepLogComplete ==
    /\ Len(StepsSoFar) = Len(dispatch_log)
    /\ \A i \in DOMAIN StepsSoFar : StepsSoFar[i] = StepOfDispatch(dispatch_log[i])
    /\ Len(ActionsSoFar) = ActionsDue
    /\ \A i \in DOMAIN dispatch_log :
          (dispatch_log[i].tool \in FRONTEND_ACTIONS
           /\ FrontendIndex(i) <= Len(ActionsSoFar)) =>
             ActionsSoFar[FrontendIndex(i)] =
                ActionOf(dispatch_log[i].tool, dispatch_log[i].args)

(***************************************************************************)
(* Batch and streaming                                                     *)
(***************************************************************************)
\* What an invocation must come to, whatever its mode, as a function of the
\* request, the adapter outcomes and the tool results alone.
RefInitial ==
    LET context == DictGet(BodyDict, "context", EmptyObj).v
        messages == DictGet(BodyDict, "messages", JList(<<>>)).v
    IN <<[role |-> "system",
          content |-> JStr(build_system_prompt(
                              DictGet(context, "database_name", JNull),
                              DictGet(context, "schema", JNull),
                              DictGet(context, "current_sql", JNull),
                              Config.system_prompt_extra))]>>
       \o [i \in 1..Len(messages) |->
              [role |-> messages[i].v["role"].v,
               content |-> messages[i].v["content"]]]

\* The messages a tool round has added: the assistant message and the
\* tool-role message of each of its dispatches that did not raise.
RoundMessages(i) ==
    LET made == SelectSeq(RoundDispatches(i),
                          LAMBDA d : d.exc = "" /\ d.sum_exc = "")
    IN <<adapter_log[i].message>>
       \o [k \in 1..Len(made) |->
              [role |-> "tool", tool_call_id |-> made[k].id,
               content |-> json_dumps(made[k].result)]]

RECURSIVE RefHistoryUpTo(_)
RefHistoryUpTo(n) ==
    IF n = 0 THEN RefInitial
    ELSE RefHistoryUpTo(n - 1)
         \o (IF adapter_log[n].outcome = "tools" THEN RoundMessages(n)
             ELSE <<>>)

RefSteps == [i \in 1..Len(dispatch_log) |-> StepOfDispatch(dispatch_log[i])]

RefActions ==
    LET made == SelectSeq(dispatch_log,
                          LAMBDA d : d.tool \in FRONTEND_ACTIONS)
    IN [i \in 1..Len(made) |-> ActionOf(made[i].tool, made[i].args)]

LastOutcome ==
    IF adapter_log = <<>> THEN "none"
    ELSE adapter_log[Len(adapter_log)].outcome

RefState ==
    CASE LastOutcome = "raise" -> "PROVIDER_ERROR"
      [] LastOutcome = "final" -> "FINAL_RESPONSE"
      [] OTHER -> "BUDGET_EXCEEDED"

RefResponse ==
    CASE LastOutcome = "raise" ->
            JStr("Error communicating with AI: " \o AdapterErrorText)
      [] LastOutcome = "final" -> adapter_log[Len(adapter_log)].content
      [] OTHER -> JStr(BudgetMessage)

\* The run result the events of run_agent_stream fold to: the payloads of the
\* step and action events in order, and the text, usage and warning of the
\* terminal event.
FoldedEvents ==
    LET last == events[Len(events)].data
    IN [steps |-> StepsSoFar,
        actions |-> ActionsSoFar,
        response |-> IF "response" \in DOMAIN last THEN last.response
                     ELSE DictGet(last, "error", JNull),
        usage |-> DictGet(last, "usage", JNull),
        warning |-> DictGet(last, "warning", "")]

\* The same fields of the dict run_agent returns.
BatchResult ==
    [steps |-> ret.steps, actions |-> ret.actions, response |-> ret.response,
     usage |-> ret.usage, warning |-> DictGet(ret, "warning", "")]

RefResult ==
    [steps |-> RefSteps, actions |-> RefActions, response |-> RefResponse,
     usage |-> ExpectedUsage(adapter_log),
     warning |-> IF RefState = "BUDGET_EXCEEDED" THEN "max_rounds_exceeded"
                 ELSE ""]

\* C29: run_agent and run_agent_stream are the same state machine: in either
\* mode the history passed to each adapter call and the history at the end
\* are the same function of the request, the adapter outcomes and the tool
\* results, the terminal state is the same function of the adapter outcomes,
\* and the batch result and the fold of the streamed events (step payloads,
\* action payloads, the terminal event's text, usage and warning) are the
\* same run result.
C29_BatchStreamEquivalent ==
    /\ \A i \in DOMAIN adapter_log :
          adapter_log[i].sent = RefHistoryUpTo(i - 1)
    /\ pc \in {"await", "done"} =>
          llm_messages = RefHistoryUpTo(Len(adapter_log))
    /\ pc = "done" =>
          /\ state = RefState
          /\ IF mode = "batch" THEN BatchResult = RefResult
             ELSE FoldedEvents = RefResult

(***************************************************************************)
(* Streaming: events and the work behind them                              *)
(***************************************************************************)
\* run_agent_stream is suspended at a yield: it goes on only when the
\* consumer asks for the next event.
Suspended == mode = "stream" /\ pc \in {"yield_step", "yield_action", "done"}

\* An adapter call or a tool dispatch is made in this step.
WorkDone == adapter_log' # adapter_log \/ dispatch_log' # dispatch_log

\* C30: in streaming mode the i-th step event is the Step of the i-th
\* dispatch, emitted when that dispatch has returned; a tool call is
\* dispatched and an adapter call made only when the step event of every
\* earlier dispatch has been emitted; every emission suspends the generator,
\* and while it is suspended after an event no adapter call and no dispatch
\* is made: being resumed by the consumer comes first.
C30_NoWorkAhead ==
    /\ [](mode = "stream" =>
            /\ Len(EventsOf("step")) <= Len(dispatch_log)
            /\ \A i \in DOMAIN EventsOf("step") :
                  EventsOf("step")[i].data = StepOfDispatch(dispatch_log[i])
            /\ Suspended => Len(EventsOf("step")) = Len(dispatch_log))
    /\ [][mode = "stream" =>
            /\ events' # events => Suspended'
            /\ WorkDone =>
                  /\ ~Suspended
                  /\ Len(EventsOf("step")) = Len(dispatch_log)]_vars

C30_Witness ==
    /\ mode = "stream"
    /\ pc = "yield_step"
    /\ Len(dispatch_log) = 2
    /\ Len(events) = 3
    /\ events[1].event = "step" /\ events[2].event = "action"
    /\ events[3].event = "step"
    /\ Len(ToolMsgs) = 1

(***************************************************************************)
(* Two invocations at the same time                                        *)
(***************************************************************************)
\* The dispatches of the invocation that returned.
Returned == SelectSeq(dispatch_log, LAMBDA d : d.exc = "" /\ d.sum_exc = "")

\* The accumulators of the invocation taking steps are what its own request,
\* adapter outcomes and tool results make them: the history passed to each
\* adapter call and the history between rounds, the usage total, the steps
\* and the actions.
RunsAsAlone ==
    /\ \A i \in DOMAIN adapter_log :
          adapter_log[i].sent = RefHistoryUpTo(i - 1)
    /\ pc \in {"await", "done"} =>
          llm_messages = RefHistoryUpTo(Len(adapter_log))
    /\ total_usage = ExpectedUsage(adapter_log)
    /\ StepsSoFar = [i \in 1..Len(Returned) |-> StepOfDispatch(Returned[i])]
    /\ IsPrefix(ActionsSoFar, RefActions)
    /\ pc \in {"await", "done"} => ActionsSoFar = RefActions

\* C23: when two invocations (batch or streaming) run interleaved in any
\* order, the history, usage, steps and actions of the one taking steps are
\* always what its own adapter and tool outcomes make them, as when it runs
\* alone; a step of one invocation leaves every variable of the other as it
\* was, and an invocation that starts when the other has ended starts from
\* empty accumulators.
C23_NoSharedState ==
    /\ [](RunsAsAlone)
    /\ [][other' = other \/ (other' = Frame /\ Frame' = other)]_vars

C23_Witness ==
    /\ other # NoFrame
    /\ mode = "batch" /\ other.mode = "stream"
    /\ pc = "done" /\ other.pc = "done"
    /\ Len(steps) = 1
    /\ Len(other.dispatch_log) = 1
    /\ other.events[1].event = "step"
    /\ steps[1] # other.events[1].data
    /\ total_usage = ZeroUsage /\ other.total_usage # ZeroUsage

(***************************************************************************)
(* The final response                                                      *)
(***************************************************************************)
\* The response returned by run_agent or emitted by run_agent_stream.
ResponseGiven ==
    IF mode = "batch" THEN ret.response
    ELSE events[Len(events)].data.response

\* The adapter's last answer.
LastAnswer == adapter_log[Len(adapter_log)]

\* The last answer carries a text content.
AnswerHasText == LastAnswer.has_content /\ LastAnswer.content.t = "str"

\* C31: in FINAL_RESPONSE the response returned or emitted is a text: the
\* assistant message's text content, and the empty string when the message
\* has no content field or a null content.
C31_FinalResponseIsText ==
    (pc = "done" /\ state = "FINAL_RESPONSE") =>
        /\ ResponseGiven.t = "str"
        /\ ResponseGiven = IF AnswerHasText THEN LastAnswer.content
                           ELSE JStr("")

(***************************************************************************)
(* The shapes of a tool result                                             *)
(***************************************************************************)
\* The keys that tell the shapes of a tool result apart.
ShapeKeys ==
    {"error", "schemas", "tables", "columns", "data", "values", "action"}

\* C32: every result execute_tool returns carries exactly one of the shape
\* keys error, schemas, tables, columns, data, values and action, whatever
\* the tool, the arguments and the database outcome.
C32_OneShape ==
    ToolCalled =>
       \A i \in DOMAIN fn_results :
          fn_results[i].exc = "" =>
             Cardinality(DOMAIN fn_results[i].result.v \cap ShapeKeys) = 1

(***************************************************************************)
(* The conversation passed to the first adapter call                       *)
(***************************************************************************)
\* The caller-supplied message list.
SuppliedMessages == BodyDict["messages"].v

\* The messages the first adapter call was passed.
FirstSent == adapter_log[1].sent

\* C33: the first adapter call receives the system message followed by the
\* caller's messages in their order, each with its role and content and no
\* other field; the request, the caller's message list with it, is never
\* changed.
C33_FirstCallConversation ==
    /\ [](adapter_log # <<>> =>
            /\ Len(FirstSent) = 1 + Len(SuppliedMessages)
            /\ FirstSent[1] = RefInitial[1]
            /\ FirstSent[1].role = "system"
            /\ \A i \in DOMAIN SuppliedMessages :
                  /\ DOMAIN FirstSent[i + 1] = {"role", "content"}
                  /\ FirstSent[i + 1].role = SuppliedMessages[i].v["role"].v
                  /\ FirstSent[i + 1].content =
                        SuppliedMessages[i].v["content"])
    /\ [][request' = request]_vars

C33_Witness ==
    /\ adapter_log # <<>>
    /\ Len(FirstSent) = 6
    /\ DOMAIN SuppliedMessages[1].v = {"role", "content", "name"}
    /\ DOMAIN SuppliedMessages[3].v = {"role", "tool_call_id", "content"}
    /\ FirstSent[4].role = "tool"
    /\ FirstSent[2].content # FirstSent[6].content
    /\ pc = "done"

(***************************************************************************)
(* The arguments of a tool call                                            *)
(***************************************************************************)
\* The argument text parses to a JSON object.
YieldsMapping(text) == json_loads(text).ok /\ json_loads(text).val.t = "obj"

\* C34: whatever the argument text of a tool call, the arguments dispatched
\* and recorded in the Step are a mapping, the empty mapping when the text
\* does not parse to one, and such a text aborts the round no more than the
\* text {} does.
C34_ArgumentsAreMapping ==
    \A i \in DOMAIN dispatch_log :
       LET d == dispatch_log[i] IN
       /\ d.args.t = "obj"
       /\ ~YieldsMapping(d.text) =>
             /\ d.args = EmptyObj
             /\ \A db \in DbBehaviours :
                   d.exc = execute_tool(d.tool, EmptyObj,
                                        ctx.database_id, ctx.schema_name,
                                        ctx.catalog, ctx.max_sample_rows,
                                        db).exc
       /\ (d.exc = "" /\ d.sum_exc = "" /\ i <= Len(StepsSoFar)) =>
             StepsSoFar[i].args = d.args

(***************************************************************************)
(* The summary of a row-returning tool call                                *)
(***************************************************************************)
\* The row-data line of the summarizer for a result.
RowsLine(result) ==
    JStr(PyStr(DictGet(result.v, "row_count", JStr("?"))) \o " rows returned")

\* C35: the summary of the result of every successful sample_table_data or
\* execute_sql call, as the loop records it in the Step, is the row-data
\* line "<row_count> rows returned".
C35_RowSummary ==
    (ToolCalled /\ fn_args.tool_name \in {"sample_table_data", "execute_sql"})
    => \A i \in DOMAIN fn_results :
          LET result == fn_results[i].result IN
          (fn_results[i].exc = "" /\ "data" \in DOMAIN result.v) =>
             /\ summarize_result(result).exc = ""
             /\ summarize_result(result).summary = RowsLine(result)

(***************************************************************************)
(* Authentication before the loop                                          *)
(***************************************************************************)
\* C36: the loop is invoked only for a request whose authentication check
\* found a logged-in, non-anonymous user; not for an anonymous user, without
\* a current user, or when the check itself raised.
C36_LoopNeedsUser == LoopEntered => request.auth = "user"

====
